---- MODULE Spec2Model ----
(***************************************************************************)
(* Model of the ingestion / normalization / query pipeline of the          *)
(* real-estate analysis backend:                                           *)
(*   api/utils/data_processor.py   RealEstateDataProcessor                  *)
(*   api/serializers/real_estate.py AnalysisQuerySerializer                 *)
(*   api/views.py                  RealEstateAnalysisView, DataExportView   *)
(*                                                                         *)
(* Text is modelled as sequences of one-character strings, so that         *)
(* lower(), strip(), split(), int() and the regular expressions are        *)
(* computed character by character as Python computes them.                *)
(***************************************************************************)
EXTENDS Integers, Sequences, FiniteSets, TLC

\* ------------------------------------------------------------------------
\* Characters

UpperAlpha == <<"A","B","C","D","E","F","G","H","I","J","K","L","M",
                "N","O","P","Q","R","S","T","U","V","W","X","Y","Z">>
LowerAlpha == <<"a","b","c","d","e","f","g","h","i","j","k","l","m",
                "n","o","p","q","r","s","t","u","v","w","x","y","z">>
Digits == <<"0","1","2","3","4","5","6","7","8","9">>

\* The characters of the model in code point order; "RUPEE" stands for the
\* currency glyph U+20B9, which sorts after every ASCII character.
Alphabet ==
    <<" ", ",", "-">> \o Digits \o UpperAlpha \o <<"_">> \o LowerAlpha \o <<"RUPEE">>

Range(f) == { f[i] : i \in DOMAIN f }

\* tables over the characters
DigitSet == Range(Digits)
UpperSet == Range(UpperAlpha)
DigitValues == [c \in DigitSet |-> (CHOOSE i \in DOMAIN Digits : Digits[i] = c) - 1]
CodePoints == [c \in Range(Alphabet) |-> CHOOSE i \in DOMAIN Alphabet : Alphabet[i] = c]
LowerOfUpper ==
    [c \in UpperSet |-> LowerAlpha[CHOOSE i \in DOMAIN UpperAlpha : UpperAlpha[i] = c]]

IsDigit(c) == c \in DigitSet
IsSpace(c) == c = " "
DigitVal(c) == DigitValues[c]
CharOrd(c) == CodePoints[c]

\* str.lower() on one character
LowerChar(c) == IF c \in UpperSet THEN LowerOfUpper[c] ELSE c

\* ------------------------------------------------------------------------
\* Python string operations

Lower(s) == [i \in DOMAIN s |-> LowerChar(s[i])]

RECURSIVE LStrip(_)
LStrip(s) == IF s # <<>> /\ IsSpace(Head(s)) THEN LStrip(Tail(s)) ELSE s

RECURSIVE RStrip(_)
RStrip(s) ==
    IF s # <<>> /\ IsSpace(s[Len(s)]) THEN RStrip(SubSeq(s, 1, Len(s) - 1)) ELSE s

\* str.strip()
Strip(s) == RStrip(LStrip(s))

\* str.startswith(p)
StartsWith(s, p) == Len(s) >= Len(p) /\ SubSeq(s, 1, Len(p)) = p

\* sub in s
Contains(s, sub) ==
    \E i \in 0..(Len(s) - Len(sub)) : SubSeq(s, i + 1, i + Len(sub)) = sub

\* str.split(ch): the parts between the separators, empty parts kept
RECURSIVE SplitOn(_, _)
SplitOn(s, ch) ==
    IF \A i \in DOMAIN s : s[i] # ch
    THEN <<s>>
    ELSE LET k == CHOOSE i \in DOMAIN s :
                      s[i] = ch /\ \A j \in 1..(i - 1) : s[j] # ch
         IN  <<SubSeq(s, 1, k - 1)>> \o SplitOn(SubSeq(s, k + 1, Len(s)), ch)

\* str.split(): the maximal runs of non-whitespace characters
RECURSIVE SplitWS(_)
SplitWS(s) ==
    LET t == LStrip(s)
    IN  IF t = <<>>
        THEN <<>>
        ELSE LET n == IF \E i \in DOMAIN t : IsSpace(t[i])
                      THEN (CHOOSE i \in DOMAIN t :
                                IsSpace(t[i]) /\ \A j \in 1..(i - 1) : ~IsSpace(t[j])) - 1
                      ELSE Len(t)
             IN  <<SubSeq(t, 1, n)>> \o SplitWS(SubSeq(t, n + 1, Len(t)))

\* value of a non-empty run of decimal digits
RECURSIVE DigitsValue(_)
DigitsValue(s) ==
    IF s = <<>> THEN 0
    ELSE DigitsValue(SubSeq(s, 1, Len(s) - 1)) * 10 + DigitVal(s[Len(s)])

\* int(s): surrounding whitespace is ignored, one leading "-" is a sign, the
\* rest must be a non-empty run of digits; anything else is a ValueError.
ParseInt(s) ==
    LET t == Strip(s)
        neg == t # <<>> /\ Head(t) = "-"
        d == IF neg THEN Tail(t) ELSE t
    IN  IF d # <<>> /\ \A i \in DOMAIN d : IsDigit(d[i])
        THEN [ok |-> TRUE, val |-> IF neg THEN 0 - DigitsValue(d) ELSE DigitsValue(d)]
        ELSE [ok |-> FALSE, val |-> 0]

\* str(n) for n >= 0
RECURSIVE IntToStr(_)
IntToStr(n) ==
    IF n < 10 THEN <<Digits[n + 1]>>
    ELSE IntToStr(n \div 10) \o <<Digits[(n % 10) + 1]>>

\* a < b in Python's string order (code points, shorter prefix first)
RECURSIVE StrLess(_, _)
StrLess(a, b) ==
    IF b = <<>> THEN FALSE
    ELSE IF a = <<>> THEN TRUE
    ELSE IF Head(a) = Head(b) THEN StrLess(Tail(a), Tail(b))
    ELSE CharOrd(Head(a)) < CharOrd(Head(b))

\* ------------------------------------------------------------------------
\* Regular expressions of the serializer and of process_query

AllDigits(s) == \A i \in DOMAIN s : IsDigit(s[i])

\* re.findall(r'(\d{4})', s): the non-overlapping runs of four digits, scanned
\* from the left
RECURSIVE FindAllYears(_)
FindAllYears(s) ==
    IF Len(s) < 4 THEN <<>>
    ELSE IF AllDigits(SubSeq(s, 1, 4))
         THEN <<SubSeq(s, 1, 4)>> \o FindAllYears(SubSeq(s, 5, Len(s)))
         ELSE FindAllYears(Tail(s))

\* first position >= j of s that holds no whitespace (Len(s) + 1 if none)
RECURSIVE SkipSpaces(_, _)
SkipSpaces(s, j) ==
    IF j <= Len(s) /\ IsSpace(s[j]) THEN SkipSpaces(s, j + 1) ELSE j

\* first position >= j of s that holds no digit (Len(s) + 1 if none)
RECURSIVE SkipDigits(_, _)
SkipDigits(s, j) ==
    IF j <= Len(s) /\ IsDigit(s[j]) THEN SkipDigits(s, j + 1) ELSE j

\* r'(\d{4})\s*-\s*(\d{4})' matched at position i of s
RangeMatchAt(s, i) ==
    LET d == SkipSpaces(s, i + 4)
        k == SkipSpaces(s, d + 1)
    IN  IF /\ i + 3 <= Len(s)
           /\ AllDigits(SubSeq(s, i, i + 3))
           /\ d <= Len(s)
           /\ s[d] = "-"
           /\ k + 3 <= Len(s)
           /\ AllDigits(SubSeq(s, k, k + 3))
        THEN [ok |-> TRUE, g1 |-> SubSeq(s, i, i + 3), g2 |-> SubSeq(s, k, k + 3)]
        ELSE [ok |-> FALSE, g1 |-> <<>>, g2 |-> <<>>]

\* re.search(r'(\d{4})\s*-\s*(\d{4})', s): the leftmost match
SearchYearRange(s) ==
    IF \E i \in DOMAIN s : RangeMatchAt(s, i).ok
    THEN RangeMatchAt(s, CHOOSE i \in DOMAIN s :
                             /\ RangeMatchAt(s, i).ok
                             /\ \A j \in 1..(i - 1) : ~RangeMatchAt(s, j).ok)
    ELSE [ok |-> FALSE, g1 |-> <<>>, g2 |-> <<>>]

\* r'last\s+(\d+)\s+years?' matched at position i of s
LastMatchAt(s, i) ==
    LET a == SkipSpaces(s, i + 4)
        b == SkipDigits(s, a)
        c == SkipSpaces(s, b)
    IN  IF /\ i + 3 <= Len(s)
           /\ SubSeq(s, i, i + 3) = <<"l", "a", "s", "t">>
           /\ a > i + 4
           /\ b > a
           /\ c > b
           /\ c + 3 <= Len(s)
           /\ SubSeq(s, c, c + 3) = <<"y", "e", "a", "r">>
        THEN [ok |-> TRUE, g1 |-> SubSeq(s, a, b - 1)]
        ELSE [ok |-> FALSE, g1 |-> <<>>]

\* re.search(r'last\s+(\d+)\s+years?', s): the leftmost match
SearchLastYears(s) ==
    IF \E i \in DOMAIN s : LastMatchAt(s, i).ok
    THEN LastMatchAt(s, CHOOSE i \in DOMAIN s :
                            /\ LastMatchAt(s, i).ok
                            /\ \A j \in 1..(i - 1) : ~LastMatchAt(s, j).ok)
    ELSE [ok |-> FALSE, g1 |-> <<>>]

\* ------------------------------------------------------------------------
\* Cells, columns and rows
\*
\* The model keeps 13 of the 28 columns of COLUMN_MAP, in the map's order:
\* the three key columns, total_sales, every *_sold column and the flat
\* rate.  The columns left out (coordinates, the other rates, the rate
\* ranges, the inventory totals) go through the same code paths.

\* a numeric cell of the DataFrame: NaN or a number
NumNaN == [nan |-> TRUE, v |-> 0]
Num(n) == [nan |-> FALSE, v |-> n]

\* a text cell of the DataFrame: NaN / None or a string
TextNaN == [nan |-> TRUE, s |-> <<>>]
Text(s) == [nan |-> FALSE, s |-> s]

\* a cell as the reader of an external document delivers it: a blank cell is
\* read as NaN, a numeric cell as a number, any other cell as its text
RawNaN == [k |-> "nan", n |-> 0, s |-> <<>>]
RawNum(n) == [k |-> "num", n |-> n, s |-> <<>>]
RawStr(s) == [k |-> "str", n |-> 0, s |-> s]

\* COLUMN_MAP: source header (as text) -> canonical field name
COLUMN_MAP ==
    << <<<<"f", "i", "n", "a", "l", " ", "l", "o", "c", "a", "t", "i", "o", "n">>,
         "final_location">>,
       <<<<"y", "e", "a", "r">>,
         "year">>,
       <<<<"c", "i", "t", "y">>,
         "city">>,
       <<<<"t", "o", "t", "a", "l", "_", "s", "a", "l", "e", "s", " ", "-", " ", "i", "g", "r">>,
         "total_sales">>,
       <<<<"t", "o", "t", "a", "l", " ", "s", "o", "l", "d", " ", "-", " ", "i", "g", "r">>,
         "total_sold">>,
       <<<<"f", "l", "a", "t", "_", "s", "o", "l", "d", " ", "-", " ", "i", "g", "r">>,
         "flat_sold">>,
       <<<<"o", "f", "f", "i", "c", "e", "_", "s", "o", "l", "d", " ", "-", " ", "i", "g", "r">>,
         "office_sold">>,
       <<<<"o", "t", "h", "e", "r", "s", "_", "s", "o", "l", "d", " ", "-", " ", "i", "g", "r">>,
         "others_sold">>,
       <<<<"s", "h", "o", "p", "_", "s", "o", "l", "d", " ", "-", " ", "i", "g", "r">>,
         "shop_sold">>,
       <<<<"c", "o", "m", "m", "e", "r", "c", "i", "a", "l", "_", "s", "o", "l", "d", " ", "-", " ", "i", "g", "r">>,
         "commercial_sold">>,
       <<<<"o", "t", "h", "e", "r", "_", "s", "o", "l", "d", " ", "-", " ", "i", "g", "r">>,
         "other_sold">>,
       <<<<"r", "e", "s", "i", "d", "e", "n", "t", "i", "a", "l", "_", "s", "o", "l", "d", " ", "-", " ", "i", "g", "r">>,
         "residential_sold">>,
       <<<<"f", "l", "a", "t", " ", "-", " ", "w", "e", "i", "g", "h", "t", "e", "d", " ", "a", "v", "e", "r", "a", "g", "e", " ", "r", "a", "t", "e">>,
         "flat_weighted_avg_rate">> >>

\* the canonical names with their text: a header that already is a canonical
\* name is left alone by rename(), and a column is looked up by its text
CanonicalText ==
    << <<<<"f", "i", "n", "a", "l", "_", "l", "o", "c", "a", "t", "i", "o", "n">>,
         "final_location">>,
       <<<<"y", "e", "a", "r">>,
         "year">>,
       <<<<"c", "i", "t", "y">>,
         "city">>,
       <<<<"t", "o", "t", "a", "l", "_", "s", "a", "l", "e", "s">>,
         "total_sales">>,
       <<<<"t", "o", "t", "a", "l", "_", "s", "o", "l", "d">>,
         "total_sold">>,
       <<<<"f", "l", "a", "t", "_", "s", "o", "l", "d">>,
         "flat_sold">>,
       <<<<"o", "f", "f", "i", "c", "e", "_", "s", "o", "l", "d">>,
         "office_sold">>,
       <<<<"o", "t", "h", "e", "r", "s", "_", "s", "o", "l", "d">>,
         "others_sold">>,
       <<<<"s", "h", "o", "p", "_", "s", "o", "l", "d">>,
         "shop_sold">>,
       <<<<"c", "o", "m", "m", "e", "r", "c", "i", "a", "l", "_", "s", "o", "l", "d">>,
         "commercial_sold">>,
       <<<<"o", "t", "h", "e", "r", "_", "s", "o", "l", "d">>,
         "other_sold">>,
       <<<<"r", "e", "s", "i", "d", "e", "n", "t", "i", "a", "l", "_", "s", "o", "l", "d">>,
         "residential_sold">>,
       <<<<"f", "l", "a", "t", "_", "w", "e", "i", "g", "h", "t", "e", "d", "_", "a", "v", "g", "_", "r", "a", "t", "e">>,
         "flat_weighted_avg_rate">> >>

\* COLUMN_MAP.values(), in order: the required columns, also DB_FIELDS
DB_FIELDS == [i \in DOMAIN COLUMN_MAP |-> COLUMN_MAP[i][2]]

\* NUMERIC_COLUMNS, in order
NUMERIC_COLUMNS ==
    <<"year", "total_sales", "total_sold", "flat_sold", "office_sold", "others_sold",
      "shop_sold", "commercial_sold", "other_sold", "residential_sold",
      "flat_weighted_avg_rate">>

\* PROPERTY_COLUMNS, in order
PROPERTY_COLUMNS ==
    <<<<"f","l","a","t">>, <<"o","f","f","i","c","e">>, <<"s","h","o","p">>,
      <<"o","t","h","e","r","s">>, <<"c","o","m","m","e","r","c","i","a","l">>,
      <<"r","e","s","i","d","e","n","t","i","a","l">>>>

\* the name a column has after  col.strip().lower()  and  rename(COLUMN_MAP):
\* a header of the map gets its canonical name, a header that already is a
\* canonical name keeps it, any other header ("?") is no canonical column
RenamedColumn(h) ==
    LET k == Lower(Strip(h))
    IN  IF \E i \in DOMAIN COLUMN_MAP : COLUMN_MAP[i][1] = k
        THEN COLUMN_MAP[CHOOSE i \in DOMAIN COLUMN_MAP : COLUMN_MAP[i][1] = k][2]
        ELSE IF \E i \in DOMAIN CanonicalText : CanonicalText[i][1] = k
             THEN CanonicalText[CHOOSE i \in DOMAIN CanonicalText :
                                    CanonicalText[i][1] = k][2]
             ELSE "?"

\* s with every character of the set cs removed
RECURSIVE RemoveChars(_, _)
RemoveChars(s, cs) ==
    IF s = <<>> THEN <<>>
    ELSE IF Head(s) \in cs THEN RemoveChars(Tail(s), cs)
    ELSE <<Head(s)>> \o RemoveChars(Tail(s), cs)

\* CleanNumericValue with the whitespace stripped before the characters
\* are removed
CleanNumericValueStripFirst(value) ==
    IF value.k = "str"
    THEN LET t == RemoveChars(Strip(value.s), {",", "RUPEE"})
         IN  IF t = <<>> \/ Lower(t) = <<"n", "a">> THEN RawNaN ELSE RawStr(t)
    ELSE value

\* _clean_numeric_value: a string loses "," and the currency glyph and its
\* surrounding whitespace, and is NaN when '' or 'na' is left; any other
\* value is returned as it is
CleanNumericValue(value) ==
    IF value.k = "str"
    THEN LET t == Strip(RemoveChars(value.s, {",", "RUPEE"}))
         IN  IF t = <<>> \/ Lower(t) = <<"n", "a">> THEN RawNaN ELSE RawStr(t)
    ELSE value

\* ToNumeric with 0 for what does not read as a number
ToNumericOrZero(value) ==
    CASE value.k = "nan" -> Num(0)
      [] value.k = "num" -> Num(value.n)
      [] OTHER -> LET p == ParseInt(value.s)
                  IN  IF p.ok THEN Num(p.val) ELSE Num(0)

\* pd.to_numeric(..., errors='coerce') on one cell: a number stays, text that
\* reads as a number becomes it, anything else becomes NaN
ToNumeric(value) ==
    CASE value.k = "nan" -> NumNaN
      [] value.k = "num" -> Num(value.n)
      [] OTHER -> LET p == ParseInt(value.s)
                  IN  IF p.ok THEN Num(p.val) ELSE NumNaN

\* a text column's cell in the DataFrame
ToText(value) == IF value.k = "nan" THEN TextNaN ELSE Text(value.s)

\* ------------------------------------------------------------------------
\* Loading and normalizing the dataset (RealEstateDataProcessor.load_data)

TEXT_COLUMNS == {"final_location", "city"}

\* one row of the dataset the processor holds: the key columns hold plain
\* values (text, text, integer), the other columns numeric cells
CanonicalRow(fr) ==
    [c \in Range(DB_FIELDS) |->
        IF c \in TEXT_COLUMNS THEN fr[c].s
        ELSE IF c = "year" THEN fr[c].v
        ELSE fr[c]]

\* df.dropna(subset=['final_location', 'city']): rows whose final_location
\* or city is NaN / None are removed (an empty string is not NaN)
DropNa(frame) ==
    SelectSeq(frame, LAMBDA fr : ~fr["final_location"].nan /\ ~fr["city"].nan)

\* the order of sort_values(['final_location', 'year'])
RowLess(a, b) ==
    \/ StrLess(a["final_location"], b["final_location"])
    \/ a["final_location"] = b["final_location"] /\ a["year"] < b["year"]

\* r inserted into the sorted rows before the first row that is greater
InsertRow(rows, r) ==
    LET n == IF \E i \in DOMAIN rows : RowLess(r, rows[i])
             THEN (CHOOSE i \in DOMAIN rows :
                       RowLess(r, rows[i]) /\ \A j \in 1..(i - 1) : ~RowLess(r, rows[j])) - 1
             ELSE Len(rows)
    IN  SubSeq(rows, 1, n) \o <<r>> \o SubSeq(rows, n + 1, Len(rows))

\* df.sort_values(['final_location', 'year']).reset_index(drop=True): rows
\* with equal keys keep their order
RECURSIVE SortValues(_)
SortValues(rows) ==
    IF rows = <<>> THEN <<>>
    ELSE InsertRow(SortValues(SubSeq(rows, 1, Len(rows) - 1)), rows[Len(rows)])

\* the common tail of both loaders:  df['year'].astype(int)  raises when a
\* year is NaN; then dropna and sort_values
Normalize(frame) ==
    IF \E i \in DOMAIN frame : frame[i]["year"].nan
    THEN [ok |-> FALSE, error |-> "ValueError", rows |-> <<>>]
    ELSE LET kept == DropNa(frame)
         IN  [ok |-> TRUE, error |-> "",
              rows |-> SortValues([i \in DOMAIN kept |-> CanonicalRow(kept[i])])]

\* _load_from_database: None when the model is not registered or the store
\* holds no row; else the store's rows, coerced, filtered and sorted.  A
\* store row holds text in final_location and city (NOT NULL columns), an
\* integer year and numeric cells (NULL is NaN) elsewhere.
LoadFromDatabase(e) ==
    IF ~e.db_registered \/ e.db_rows = <<>>
    THEN [none |-> TRUE, ok |-> TRUE, error |-> "", rows |-> <<>>]
    ELSE LET frame == [i \in DOMAIN e.db_rows |->
                         [c \in Range(DB_FIELDS) |->
                             IF c \in TEXT_COLUMNS THEN Text(e.db_rows[i][c])
                             ELSE IF c = "year" THEN Num(e.db_rows[i][c])
                             ELSE e.db_rows[i][c]]]
             n == Normalize(frame)
         IN  [none |-> FALSE, ok |-> n.ok, error |-> n.error, rows |-> n.rows]

\* the part of _load_from_external_source after the document is read: the
\* headers are reconciled, a missing required column is a ValueError, the
\* numeric columns are cleaned and coerced, then the common tail
NormalizeDocument(doc) ==
    LET cols == [i \in DOMAIN doc.headers |-> RenamedColumn(doc.headers[i])]
        missing_cols == SelectSeq(DB_FIELDS, LAMBDA c : c \notin Range(cols))
        idx(c) == CHOOSE i \in DOMAIN cols : cols[i] = c
        frame == [r \in DOMAIN doc.rows |->
                     [c \in Range(DB_FIELDS) |->
                         IF c \in Range(NUMERIC_COLUMNS)
                         THEN ToNumeric(CleanNumericValue(doc.rows[r][idx(c)]))
                         ELSE ToText(doc.rows[r][idx(c)])]]
    IN  IF missing_cols # <<>>
        THEN [ok |-> FALSE, error |-> "ValueError", rows |-> <<>>]
        ELSE Normalize(frame)

\* ExternalSource with the URL tried before the local file
ExternalSourceUrlFirst(path, url, e) ==
    IF url # "" THEN "url"
    ELSE IF path # "" /\ e.file_status = "present" THEN "file"
    ELSE "none"

\* which external source _load_from_external_source reads: the local file
\* when a path is set, exists and is not empty, else the URL when one is
\* set, else none (FileNotFoundError)
ExternalSource(path, url, e) ==
    IF path # "" /\ e.file_status = "present" THEN "file"
    ELSE IF url # "" THEN "url"
    ELSE "none"

\* _load_from_external_source
LoadFromExternalSource(path, url, e) ==
    LET src == ExternalSource(path, url, e)
    IN  IF src = "none"
        THEN [ok |-> FALSE, error |-> "FileNotFoundError", rows |-> <<>>, source |-> "none"]
        ELSE LET n == NormalizeDocument(e.doc)
             IN  [ok |-> n.ok, error |-> n.error, rows |-> n.rows, source |-> src]

\* load_data: the store first when prefer_database is set, the external
\* source when the store gave nothing; any exception leaves self.df None
LoadData(path, url, prefer, e) ==
    LET db == IF prefer THEN LoadFromDatabase(e)
              ELSE [none |-> TRUE, ok |-> TRUE, error |-> "", rows |-> <<>>]
        ext == LoadFromExternalSource(path, url, e)
    IN  IF ~db.none
        THEN [ok |-> db.ok, error |-> db.error, source |-> "database",
              df |-> [none |-> ~db.ok, rows |-> db.rows]]
        ELSE [ok |-> ext.ok, error |-> ext.error, source |-> ext.source,
              df |-> [none |-> ~ext.ok, rows |-> ext.rows]]

\* the default of getattr(settings, 'REAL_ESTATE_DATA_URL', ...)
DEFAULT_DATA_URL == "https://docs.google.com/spreadsheets/d/.../export?format=csv"

\* __init__:  data_url or getattr(settings, 'REAL_ESTATE_DATA_URL', default)
ResolveDataUrl(data_url_arg, e) ==
    IF data_url_arg # "" THEN data_url_arg
    ELSE IF e.settings_url = "unset" THEN DEFAULT_DATA_URL
    ELSE e.settings_url

\* __init__:  excel_file_path or settings.EXCEL_FILE_PATH
ResolveFilePath(path_arg, e) ==
    IF path_arg # "" THEN path_arg ELSE e.settings_path

\* ------------------------------------------------------------------------
\* filter_data

\* int(year_range.split()[1]): IndexError without a second word, ValueError
\* when the second word is no integer
LastYears(year_range) ==
    LET parts == SplitWS(year_range)
    IN  IF Len(parts) < 2
        THEN [raised |-> "IndexError", years |-> 0]
        ELSE LET p == ParseInt(parts[2])
             IN  IF p.ok THEN [raised |-> "", years |-> p.val]
                 ELSE [raised |-> "ValueError", years |-> 0]

\* start_year, end_year = map(int, year_range.split('-')): ValueError when
\* a part is no integer or there are not exactly two parts
RangeYears(year_range) ==
    LET parts == SplitOn(year_range, "-")
    IN  IF Len(parts) = 2 /\ ParseInt(parts[1]).ok /\ ParseInt(parts[2]).ok
        THEN [raised |-> "", start_year |-> ParseInt(parts[1]).val,
              end_year |-> ParseInt(parts[2]).val]
        ELSE [raised |-> "ValueError", start_year |-> 0, end_year |-> 0]

\* CAUGHT with the IndexError forgotten
CaughtValueErrorOnly == {"ValueError"}

\* the exceptions the two try blocks of filter_data catch
CAUGHT == {"ValueError", "IndexError"}

\* YearRangeStep with the end of a 'YYYY-YYYY' range excluded
YearRangeStepEndExcluded(rows, year_range, now) ==
    IF year_range = <<>>
    THEN [raised |-> "", rows |-> rows]
    ELSE IF StartsWith(Lower(year_range), <<"l", "a", "s", "t", " ">>)
    THEN LET p == LastYears(year_range)
         IN  IF p.raised = ""
             THEN [raised |-> "",
                   rows |-> SelectSeq(rows, LAMBDA r : r["year"] >= now - p.years)]
             ELSE [raised |-> "", rows |-> rows]
    ELSE IF "-" \in Range(year_range)
    THEN LET p == RangeYears(year_range)
         IN  IF p.raised = ""
             THEN [raised |-> "",
                   rows |-> SelectSeq(rows, LAMBDA r :
                                r["year"] >= p.start_year /\ r["year"] < p.end_year)]
             ELSE [raised |-> "", rows |-> rows]
    ELSE [raised |-> "", rows |-> rows]

\* the year-range step of filter_data on the rows left by the locality step
YearRangeStep(rows, year_range, now) ==
    IF year_range = <<>>
    THEN [raised |-> "", rows |-> rows]
    ELSE IF StartsWith(Lower(year_range), <<"l", "a", "s", "t", " ">>)
    THEN LET p == LastYears(year_range)
         IN  IF p.raised = ""
             THEN [raised |-> "",
                   rows |-> SelectSeq(rows, LAMBDA r : r["year"] >= now - p.years)]
             ELSE IF p.raised \in CAUGHT THEN [raised |-> "", rows |-> rows]
             ELSE [raised |-> p.raised, rows |-> <<>>]
    ELSE IF "-" \in Range(year_range)
    THEN LET p == RangeYears(year_range)
         IN  IF p.raised = ""
             THEN [raised |-> "",
                   rows |-> SelectSeq(rows, LAMBDA r :
                                r["year"] >= p.start_year /\ r["year"] <= p.end_year)]
             ELSE IF p.raised \in CAUGHT THEN [raised |-> "", rows |-> rows]
             ELSE [raised |-> p.raised, rows |-> <<>>]
    ELSE [raised |-> "", rows |-> rows]

\* the locality step: final_location.str.lower() == locality.lower()
LocalityStep(rows, locality) ==
    IF locality = <<>> THEN rows
    ELSE SelectSeq(rows, LAMBDA r : Lower(r["final_location"]) = Lower(locality))

\* f"{property_type.lower()}_sold"
SoldColumnText(property_type) == Lower(property_type) \o <<"_", "s", "o", "l", "d">>

\* column_name in df.columns
IsColumn(text) == \E i \in DOMAIN CanonicalText : CanonicalText[i][1] = text
ColumnNamed(text) ==
    CanonicalText[CHOOSE i \in DOMAIN CanonicalText : CanonicalText[i][1] = text][2]

\* the property-type step: df[column] > 0, which no NaN satisfies
PropertyStep(rows, property_type) ==
    IF property_type = <<>> \/ ~IsColumn(SoldColumnText(property_type))
    THEN rows
    ELSE LET col == ColumnNamed(SoldColumnText(property_type))
         IN  SelectSeq(rows, LAMBDA r : ~r[col].nan /\ r[col].v > 0)

\* FilterData that narrows self.df itself instead of a copy
FilterDataInPlace(rows, filters, now) ==
    LET y == YearRangeStep(LocalityStep(rows, filters.locality), filters.year_range, now)
        out == IF y.raised = "" THEN PropertyStep(y.rows, filters.property_type) ELSE <<>>
    IN  [raised |-> y.raised, rows |-> out, df |-> out]

\* FilterData that also keeps only the years from year_from to year_to
FilterDataYearFields(rows, filters, now) ==
    LET y == YearRangeStep(LocalityStep(rows, filters.locality), filters.year_range, now)
        in_years(r) == /\ filters.year_from.none \/ r["year"] >= filters.year_from.v
                       /\ filters.year_to.none \/ r["year"] <= filters.year_to.v
    IN  [raised |-> y.raised,
         rows |-> IF y.raised = ""
                  THEN SelectSeq(PropertyStep(y.rows, filters.property_type), in_years)
                  ELSE <<>>,
         df |-> rows]

\* filter_data(filters) on the dataset rows: the filtered copy, the
\* exception it raises if any, and the dataset the processor holds afterwards
FilterData(rows, filters, now) ==
    LET y == YearRangeStep(LocalityStep(rows, filters.locality), filters.year_range, now)
    IN  [raised |-> y.raised,
         rows |-> IF y.raised = "" THEN PropertyStep(y.rows, filters.property_type)
                  ELSE <<>>,
         df |-> rows]

\* ------------------------------------------------------------------------
\* Aggregation: generate_summary, prepare_chart_data, prepare_table_data

NO_DATA_SENTENCE == "No data available for the specified filters."
STATS_SENTENCE ==
    "Between {min} and {max}, {scope} recorded {sales} in total sales with {units} units sold. Average prices per sq.ft ... Most active segment: {top}."

\* sum of a numeric column, NaN skipped
RECURSIVE ColumnSum(_, _)
ColumnSum(rows, col) ==
    IF rows = <<>> THEN 0
    ELSE (IF Head(rows)[col].nan THEN 0 ELSE Head(rows)[col].v) + ColumnSum(Tail(rows), col)

\* number of values of a numeric column that are not NaN
ColumnCount(rows, col) == Cardinality({i \in DOMAIN rows : ~rows[i][col].nan})

\* n / d rounded half to even to an integer (d > 0, n >= 0)
RoundDiv(n, d) ==
    LET q == n \div d
        r == n % d
    IN  IF 2 * r < d THEN q
        ELSE IF 2 * r > d THEN q + 1
        ELSE IF q % 2 = 0 THEN q ELSE q + 1

\* mean of a numeric column times scale, rounded; NaN when every value is NaN
ColumnMean(rows, col, scale) ==
    IF ColumnCount(rows, col) = 0 THEN NumNaN
    ELSE Num(RoundDiv(ColumnSum(rows, col) * scale, ColumnCount(rows, col)))

\* the columns whose name ends with '_sold', in column order
SoldColumns ==
    SelectSeq(DB_FIELDS, LAMBDA c :
        \E i \in DOMAIN CanonicalText :
            /\ CanonicalText[i][2] = c
            /\ LET t == CanonicalText[i][1]
               IN  Len(t) >= 5 /\ SubSeq(t, Len(t) - 4, Len(t)) = <<"_", "s", "o", "l", "d">>)

\* property_sums.idxmax(): the first column holding the largest sum
TopProperty(rows) ==
    LET sums == [i \in DOMAIN SoldColumns |-> ColumnSum(rows, SoldColumns[i])]
        best == CHOOSE i \in DOMAIN sums :
                    /\ \A j \in DOMAIN sums : sums[j] <= sums[i]
                    /\ \A j \in 1..(i - 1) : sums[j] < sums[i]
    IN  SoldColumns[best]

\* the distinct values of a column in order of first appearance (unique())
RECURSIVE Unique(_)
Unique(s) ==
    IF s = <<>> THEN <<>>
    ELSE LET init == Unique(SubSeq(s, 1, Len(s) - 1))
             x == s[Len(s)]
         IN  IF x \in Range(init) THEN init ELSE Append(init, x)

Localities(rows) == Unique([i \in DOMAIN rows |-> rows[i]["final_location"]])

SetMin(S) == CHOOSE x \in S : \A y \in S : x <= y
SetMax(S) == CHOOSE x \in S : \A y \in S : x >= y

\* the elements of a finite set of integers in ascending order
RECURSIVE SortedSeq(_)
SortedSeq(S) == IF S = {} THEN <<>> ELSE <<SetMin(S)>> \o SortedSeq(S \ {SetMin(S)})

\* generate_summary: the fixed sentence for an empty frame, else the
\* template with its figures (averages and sums as the integers printed)
GenerateSummary(rows) ==
    IF rows = <<>>
    THEN [sentence |-> NO_DATA_SENTENCE, min_year |-> 0, max_year |-> 0,
          scope |-> <<>>, total_sales |-> 0, units_sold |-> 0,
          avg_flat_price |-> NumNaN, top_property |-> ""]
    ELSE LET years == {rows[i]["year"] : i \in DOMAIN rows}
             locs == Localities(rows)
         IN  [sentence |-> STATS_SENTENCE,
              min_year |-> SetMin(years),
              max_year |-> SetMax(years),
              scope |-> IF Len(locs) = 1 THEN locs[1]
                        ELSE IntToStr(Len(locs)) \o <<" ">> \o
                             <<"l","o","c","a","l","i","t","i","e","s">>,
              total_sales |-> ColumnSum(rows, "total_sales"),
              units_sold |-> ColumnSum(
                  [i \in DOMAIN SoldColumns |->
                      [v |-> Num(ColumnSum(rows, SoldColumns[i]))]], "v"),
              avg_flat_price |-> ColumnMean(rows, "flat_weighted_avg_rate", 1),
              top_property |-> TopProperty(rows)]

\* PrepareChartData without the check for an empty frame
PrepareChartDataUnguarded(rows) ==
    LET labels == SortedSeq({rows[i]["year"] : i \in DOMAIN rows})
        group(y) == SelectSeq(rows, LAMBDA r : r["year"] = y)
    IN  [labels |-> labels,
         datasets |->
            << [label |-> "Avg Flat Price",
                data |-> [i \in DOMAIN labels |->
                    ColumnMean(group(labels[i]), "flat_weighted_avg_rate", 100)]],
               [label |-> "Total Units Sold",
                data |-> [i \in DOMAIN labels |->
                    Num(ColumnSum(group(labels[i]), "total_sold"))]] >>]

\* prepare_chart_data: per year, the mean flat rate rounded to 2 decimals
\* (held in hundredths) and the summed total_sold
PrepareChartData(rows) ==
    IF rows = <<>>
    THEN [labels |-> <<>>, datasets |-> <<>>]
    ELSE LET labels == SortedSeq({rows[i]["year"] : i \in DOMAIN rows})
             group(y) == SelectSeq(rows, LAMBDA r : r["year"] = y)
         IN  [labels |-> labels,
              datasets |->
                 << [label |-> "Avg Flat Price",
                     data |-> [i \in DOMAIN labels |->
                         ColumnMean(group(labels[i]), "flat_weighted_avg_rate", 100)]],
                    [label |-> "Total Units Sold",
                     data |-> [i \in DOMAIN labels |->
                         Num(ColumnSum(group(labels[i]), "total_sold"))]] >>]

\* prepare_table_data: the display columns under their labels, in row order
PrepareTableData(rows) ==
    IF rows = <<>>
    THEN <<>>
    ELSE [i \in DOMAIN rows |->
            [year |-> rows[i]["year"],
             Location |-> rows[i]["final_location"],
             city |-> rows[i]["city"],
             TotalSales |-> rows[i]["total_sales"],
             TotalUnitsSold |-> rows[i]["total_sold"],
             FlatAvgRate |-> rows[i]["flat_weighted_avg_rate"]]]

\* ------------------------------------------------------------------------
\* process_query
\*
\* A filter set holds text for locality, year_range and property_type (<<>>
\* for '' or a missing key) and an optional integer for year_from / year_to.

NoYear == [none |-> TRUE, v |-> 0]
Year(n) == [none |-> FALSE, v |-> n]

\* the first of the elements of a sequence that passed the test, as a
\* one-element sequence, or <<>>:  for x in seq: if test(x): ...; break
FirstOf(hits) == IF hits = <<>> THEN <<>> ELSE <<hits[1]>>

\* locality inferred from the dataset's localities: the first whose lowered
\* name occurs in the lowered query
InferLocality(rows, query) ==
    LET q == Lower(query)
    IN  FirstOf(SelectSeq(Localities(rows), LAMBDA loc : Contains(q, Lower(loc))))

\* year_range inferred from the query: 'YYYY-YYYY' first, else 'last N'
InferYearRange(query) ==
    LET m == SearchYearRange(query)
        l == SearchLastYears(Lower(query))
    IN  IF m.ok THEN <<m.g1 \o <<"-">> \o m.g2>>
        ELSE IF l.ok THEN <<<<"l", "a", "s", "t", " ">> \o l.g1>>
        ELSE <<>>

\* property type inferred from the query: the first of PROPERTY_COLUMNS that
\* occurs in the lowered query
InferPropertyType(query) ==
    LET q == Lower(query)
    IN  FirstOf(SelectSeq(PROPERTY_COLUMNS, LAMBDA prop : Contains(q, prop)))

\* the filters after the three extraction steps of process_query; a key that
\* is set (truthy) is never touched
ExtractFilters(rows, query, filters) ==
    LET loc == InferLocality(rows, query)
        yr == InferYearRange(query)
        pt == InferPropertyType(query)
    IN  [filters EXCEPT
            !.locality = IF @ = <<>> /\ query # <<>> /\ loc # <<>> THEN loc[1] ELSE @,
            !.year_range = IF @ = <<>> /\ query # <<>> /\ yr # <<>> THEN yr[1] ELSE @,
            !.property_type = IF @ = <<>> /\ query # <<>> /\ pt # <<>> THEN pt[1] ELSE @]

\* the return value of process_query and what the call leaves behind: the
\* result record, the filter set (the dict is updated in place, and is what
\* filter_data was called with), the filtered rows, the methods that ran,
\* and the dataset held afterwards
AnalysisOf(query, f, fd) ==
    [raised |-> fd.raised,
     filters |-> f,
     filtered |-> fd.rows,
     df |-> fd.df,
     calls |-> <<"process_query", "filter_data", "generate_summary",
                 "prepare_chart_data", "prepare_table_data">>,
     result |-> [query |-> query,
                 summary |-> GenerateSummary(fd.rows),
                 chart_data |-> PrepareChartData(fd.rows),
                 table_data |-> PrepareTableData(fd.rows),
                 filters |-> f]]

\* process_query from the call of filter_data on, f being the filters after
\* the extraction steps
FilterAndAnalyze(rows, query, f, now) == AnalysisOf(query, f, FilterData(rows, f, now))

\* process_query(query, filters)
ProcessQuery(rows, query, filters, now) ==
    FilterAndAnalyze(rows, query, ExtractFilters(rows, query, filters), now)

\* ------------------------------------------------------------------------
\* AnalysisQuerySerializer
\*
\* A request parameter is [given, s] (text) or [given, null, v] (year).

YEAR_MIN == 2000
YEAR_MAX == 2100

\* the choices of property_type
PROPERTY_CHOICES == Range(PROPERTY_COLUMNS)

\* the serializer's fields; a key of the request that is none of them is
\* not part of the validated data
SERIALIZER_FIELDS == {"query", "locality", "year_from", "year_to", "property_type"}

\* the fallback keyword table of validate(), in order
LOCALITY_MAPPING ==
    << <<<<"w","a","k","a","d">>, <<"W","a","k","a","d">>>>,
       <<<<"a","u","n","d","h">>, <<"A","u","n","d","h">>>>,
       <<<<"b","a","n","e","r">>, <<"B","a","n","e","r">>>>,
       <<<<"h","i","n","j","e","w","a","d","i">>, <<"H","i","n","j","e","w","a","d","i">>>> >>

\* field validation of one declared field: query is required and not blank,
\* a year that is given and not null lies in YEAR_MIN..YEAR_MAX, a
\* property_type that is given is '' or one of the choices
FieldError(f, req) ==
    CASE f = "query" -> ~req.query.given \/ Strip(req.query.s) = <<>>
      [] f = "year_from" ->
            /\ req.year_from.given /\ ~req.year_from.null
            /\ (req.year_from.v < YEAR_MIN \/ req.year_from.v > YEAR_MAX)
      [] f = "year_to" ->
            /\ req.year_to.given /\ ~req.year_to.null
            /\ (req.year_to.v < YEAR_MIN \/ req.year_to.v > YEAR_MAX)
      [] f = "property_type" ->
            /\ req.property_type.given
            /\ req.property_type.s # <<>>
            /\ req.property_type.s \notin PROPERTY_CHOICES
      [] OTHER -> FALSE

FieldErrors(req) == {f \in SERIALIZER_FIELDS : FieldError(f, req)}

\* the validated data of the declared fields: text fields trimmed, a missing
\* or null year None, a missing text field '' for every reader (data.get)
InternalValue(req) ==
    [query |-> Strip(req.query.s),
     locality |-> IF "locality" \in SERIALIZER_FIELDS /\ req.locality.given
                  THEN Strip(req.locality.s) ELSE <<>>,
     year_range |-> IF "year_range" \in SERIALIZER_FIELDS /\ req.year_range.given
                    THEN Strip(req.year_range.s) ELSE <<>>,
     property_type |-> IF "property_type" \in SERIALIZER_FIELDS /\ req.property_type.given
                       THEN req.property_type.s ELSE <<>>,
     year_from |-> IF req.year_from.given /\ ~req.year_from.null
                   THEN Year(req.year_from.v) ELSE NoYear,
     year_to |-> IF req.year_to.given /\ ~req.year_to.null
                 THEN Year(req.year_to.v) ELSE NoYear]

\* YearOrderError with the comparison turned around
YearOrderErrorReversed(data) ==
    /\ ~data.year_from.none /\ data.year_from.v # 0
    /\ ~data.year_to.none /\ data.year_to.v # 0
    /\ data.year_from.v < data.year_to.v

\* YearOrderError for a validate() without the check of the order
YearOrderUnchecked(data) == FALSE

\* if data.get('year_from') and data.get('year_to') and year_from > year_to
YearOrderError(data) ==
    /\ ~data.year_from.none /\ data.year_from.v # 0
    /\ ~data.year_to.none /\ data.year_to.v # 0
    /\ data.year_from.v > data.year_to.v

\* YearMatches without the sort: the years in their order in the text
YearMatchesInOrder(query) ==
    LET ms == FindAllYears(query)
    IN  [i \in DOMAIN ms |-> DigitsValue(ms[i])]

\* sorted([int(y) for y in year_matches])
YearMatches(query) ==
    LET ms == FindAllYears(query)
    IN  SortedSeq({DigitsValue(ms[i]) : i \in DOMAIN ms})

\* the year extraction of validate(): when year_from or year_to is unset and
\* the query holds two or more 4-digit numbers, both become min and max
ExtractYears(data) ==
    LET unset(y) == y.none \/ y.v = 0
        ms == FindAllYears(data.query)
        ys == YearMatches(data.query)
    IN  IF (unset(data.year_from) \/ unset(data.year_to)) /\ Len(ms) >= 2
        THEN [data EXCEPT !.year_from = Year(ys[1]), !.year_to = Year(ys[Len(ys)])]
        ELSE data

\* the locality extraction of validate(): the first key of the mapping that
\* occurs in the lowered query
ExtractMappedLocality(data) ==
    LET q == Lower(data.query)
        hit == FirstOf(SelectSeq(LOCALITY_MAPPING, LAMBDA kv : Contains(q, kv[1])))
    IN  IF data.locality = <<>> /\ hit # <<>>
        THEN [data EXCEPT !.locality = hit[1][2]]
        ELSE data

\* is_valid(): field validation, then validate()
RunValidation(req) ==
    LET errs == FieldErrors(req)
        data == InternalValue(req)
    IN  IF errs # {} THEN [valid |-> FALSE, errors |-> errs, data |-> data]
        ELSE IF YearOrderError(data)
        THEN [valid |-> FALSE, errors |-> {"non_field_errors"}, data |-> data]
        ELSE [valid |-> TRUE, errors |-> {},
              data |-> ExtractMappedLocality(ExtractYears(data))]

\* ------------------------------------------------------------------------
\* RealEstateAnalysisView

HTTP_200_OK == 200
HTTP_400_BAD_REQUEST == 400
HTTP_404_NOT_FOUND == 404
HTTP_500_INTERNAL_SERVER_ERROR == 500

NoFilters ==
    [locality |-> <<>>, year_range |-> <<>>, property_type |-> <<>>,
     year_from |-> NoYear, year_to |-> NoYear]

NoResult ==
    [query |-> <<>>, summary |-> GenerateSummary(<<>>), chart_data |-> PrepareChartData(<<>>),
     table_data |-> <<>>, filters |-> NoFilters]

\* the filters process_analysis builds from the validated data
ViewFilters(data) ==
    [locality |-> data.locality,
     year_range |-> data.year_range,
     property_type |-> data.property_type,
     year_from |-> data.year_from,
     year_to |-> data.year_to]

\* ------------------------------------------------------------------------
\* Text used by the inputs of the model

t_Wakad == <<"W", "a", "k", "a", "d">>
t_Baner == <<"B", "a", "n", "e", "r">>
t_Pune == <<"P", "u", "n", "e">>
t_wakad == <<"w", "a", "k", "a", "d">>
t_BANER == <<"B", "A", "N", "E", "R">>
t_aundh == <<"a", "u", "n", "d", "h">>
t_flat == <<"f", "l", "a", "t">>
t_Shop == <<"S", "h", "o", "p">>
t_shop == <<"s", "h", "o", "p">>
t_villa == <<"v", "i", "l", "l", "a">>
t_total == <<"t", "o", "t", "a", "l">>
t_messy_final_location == <<" ", " ", "F", "i", "n", "a", "l", " ", "L", "o", "c", "a", "t", "i", "o", "n", " ">>
t_rupee_1200 == <<"RUPEE", "1", ",", "2", "0", "0">>
t_NA == <<"N", "A">>
t_na_lower == <<" ", "n", "a", " ">>
t_abc == <<"a", "b", "c">>
t_y2021 == <<"2", "0", "2", "1">>
t_y20x == <<"2", "0", "x">>
t_n_12 == <<" ", "1", "2", " ">>
t_last_ == <<"l", "a", "s", "t", " ">>
t_last == <<"l", "a", "s", "t">>
t_last_x == <<"l", "a", "s", "t", " ", "x">>
t_abc_def == <<"a", "b", "c", "-", "d", "e", "f">>
t_three_years == <<"2", "0", "2", "0", "-", "2", "0", "2", "1", "-", "2", "0", "2", "2">>
t_dash == <<"-">>
t_y2020 == <<"2", "0", "2", "0">>
t_from_range == <<"f", "r", "o", "m", " ", "2", "0", "2", "0", "-", "2", "0", "2", "2">>
t_years == <<" ", "y", "e", "a", "r", "s">>
t_Last_ == <<"L", "a", "s", "t", " ">>
t_q_2023 == <<"2", "0", "2", "3", " ">>
t_q_2019 == <<"2", "0", "1", "9">>
t_q_to_2021 == <<"-", "2", "0", "2", "1">>
t_q_run == <<"2", "0", "2", "1", "1", "9", "9", "9", " ">>
t_q_wakad == <<"w", "a", "k", "a", "d", " ">>
t_q_Baner == <<"B", "a", "n", "e", "r">>
t_q_last == <<"l", "a", "s", "t", " ", "2", " ", "y", "e", "a", "r", "s", " ">>
t_q_shop == <<"s", "h", "o", "p", " ">>
t_q_range == <<"2","0","1","9","-","2","0","2","1"," ">>
t_sp_Baner_sp == <<" ", "B", "a", "n", "e", "r", " ">>
t_commercial == <<"c", "o", "m", "m", "e", "r", "c", "i", "a", "l">>

\* ------------------------------------------------------------------------
\* Bounds

\* most rows of the external document
MaxDocRows == 2
\* most rows of the persisted store, and of the datasets that are filtered
MaxStoreRows == 2
\* most fragments a query text is made of
MaxQueryParts == 2

\* all sequences of at most n elements of S
RECURSIVE SeqsUpTo(_, _)
SeqsUpTo(S, n) ==
    IF n = 0 THEN {<<>>}
    ELSE LET shorter == SeqsUpTo(S, n - 1)
         IN  shorter \cup {Append(s, x) : s \in {t \in shorter : Len(t) = n - 1}, x \in S}

\* the concatenation of a sequence of texts
RECURSIVE Concat(_)
Concat(ss) == IF ss = <<>> THEN <<>> ELSE Head(ss) \o Concat(Tail(ss))

\* ------------------------------------------------------------------------
\* The persisted store (RealEstateData)

\* a row of the store; the columns not named are NULL
StoreRow(loc, city, year, sales, total, flat, office, shop, rate) ==
    [final_location |-> loc, city |-> city, year |-> year,
     total_sales |-> sales, total_sold |-> total, flat_sold |-> flat,
     office_sold |-> office, others_sold |-> NumNaN, shop_sold |-> shop,
     commercial_sold |-> NumNaN, other_sold |-> NumNaN, residential_sold |-> NumNaN,
     flat_weighted_avg_rate |-> rate]

\* unique_together = ('final_location', 'year', 'city')
UniqueTogether(rows) ==
    \A i, j \in DOMAIN rows :
        /\ rows[i]["final_location"] = rows[j]["final_location"]
        /\ rows[i]["year"] = rows[j]["year"]
        /\ rows[i]["city"] = rows[j]["city"]
        => i = j

\* rows a store may hold: CharField columns are NOT NULL but may hold ''
LoadStorePool ==
    { StoreRow(t_Wakad, t_Pune, 2020, Num(100), Num(5), Num(3), Num(2), NumNaN, Num(1200)),
      StoreRow(t_Baner, t_Pune, 2019, NumNaN, Num(4), Num(0), Num(4), Num(0), NumNaN),
      StoreRow(t_Wakad, <<>>, 2020, Num(50), Num(1), Num(1), NumNaN, NumNaN, Num(900)),
      StoreRow(<<>>, t_Pune, 2021, Num(70), Num(2), NumNaN, Num(2), NumNaN, Num(800)) }

LoadStores == {s \in SeqsUpTo(LoadStorePool, MaxStoreRows) : UniqueTogether(s)}

\* ------------------------------------------------------------------------
\* The external document

\* the headers of a well-formed document, in COLUMN_MAP order
HEADERS == [i \in DOMAIN COLUMN_MAP |-> COLUMN_MAP[i][1]]

\* a row of the document in that order; the columns not named are blank
DocRow(loc, year, city, sales, total, flat, office, shop, rate) ==
    <<loc, year, city, sales, total, flat, office, RawNaN, shop, RawNaN, RawNaN, RawNaN, rate>>

DocRowPool ==
    { DocRow(RawStr(t_Wakad), RawNum(2020), RawStr(t_Pune), RawStr(t_rupee_1200), RawNum(5),
             RawNum(3), RawNum(2), RawNaN, RawStr(t_rupee_1200)),
      DocRow(RawStr(t_Baner), RawStr(t_y2021), RawStr(t_Pune), RawStr(t_NA), RawStr(t_n_12),
             RawStr(t_abc), RawNum(0), RawStr(t_na_lower), RawNum(700)),
      DocRow(RawNaN, RawNum(2020), RawStr(t_Pune), RawNum(10), RawNum(1),
             RawNum(1), RawNaN, RawNaN, RawNum(500)),
      DocRow(RawStr(t_Baner), RawNum(2021), RawNaN, RawNum(20), RawNum(2),
             RawNaN, RawNum(2), RawNaN, RawNum(600)),
      DocRow(RawStr(t_Wakad), RawStr(t_y20x), RawStr(t_Pune), RawNum(30), RawNum(3),
             RawNum(3), RawNaN, RawNaN, RawNum(400)),
      DocRow(RawStr(t_Wakad), RawNaN, RawStr(t_Pune), RawNum(30), RawNum(3),
             RawNum(3), RawNaN, RawNaN, RawNum(400)) }

\* documents: every short sequence of pool rows under the plain headers, and
\* one fixed body under headers that need reconciling, that are canonical
\* already, or that lack a required column
FixedDocRows ==
    << DocRow(RawStr(t_Wakad), RawNum(2021), RawStr(t_Pune), RawNum(10), RawNum(1),
              RawNum(1), RawNaN, RawNaN, RawNum(500)),
       DocRow(RawStr(t_Baner), RawNum(2020), RawStr(t_Pune), RawNum(20), RawNum(2),
              RawNaN, RawNum(2), RawNaN, RawNum(600)) >>

MessyHeaders == [HEADERS EXCEPT ![1] = t_messy_final_location]
CanonicalHeaders == [i \in DOMAIN CanonicalText |-> CanonicalText[i][1]]
ShortHeaders == SubSeq(HEADERS, 1, Len(HEADERS) - 1)

Documents ==
    {[headers |-> HEADERS, rows |-> rs] : rs \in SeqsUpTo(DocRowPool, MaxDocRows)}
    \cup {[headers |-> h, rows |-> FixedDocRows] : h \in {MessyHeaders, CanonicalHeaders}}
    \cup {[headers |-> ShortHeaders,
           rows |-> [i \in DOMAIN FixedDocRows |->
                        SubSeq(FixedDocRows[i], 1, Len(ShortHeaders))]]}

\* ------------------------------------------------------------------------
\* State

VARIABLES
    env,              \* what surrounds the processor: the store, the file system, the settings, the document
    current_year,     \* datetime.now().year
    excel_file_path,  \* self.excel_file_path
    data_url,         \* self.data_url
    prefer_database,  \* self.prefer_database
    df,               \* self.df: [none, rows]
    source,           \* the row source load_data used ("" before the load)
    load_error,       \* the exception load_data wrapped ("" if none)
    pc,               \* "new", "ready" (constructed), "failed" (constructor raised),
                      \* "called" (a method has returned), "done" (the request is answered)
    request,          \* the parameters of the request being served
    response,         \* the response of the view
    calls,            \* the processor operations the request handler executed
    last_call,        \* the last direct call of a processor method and what it returned
    raw,              \* a raw cell handed to _clean_numeric_value
    cleaned,          \* what the cleaning passes made of it so far
    passes,           \* the number of cleaning passes applied
    views,            \* concurrent requests: the view instance and the locals of each
    processors        \* concurrent requests: the processor object of each view

vars == <<env, current_year, excel_file_path, data_url, prefer_database, df, source,
          load_error, pc, request, response, calls, last_call, raw, cleaned, passes,
          views, processors>>

NoDf == [none |-> TRUE, rows |-> <<>>]

NoText == [given |-> FALSE, s |-> <<>>]
GivenText(s) == [given |-> TRUE, s |-> s]
AbsentYear == [given |-> FALSE, null |-> FALSE, v |-> 0]
NullYear == [given |-> TRUE, null |-> TRUE, v |-> 0]
GivenYear(n) == [given |-> TRUE, null |-> FALSE, v |-> n]

NoRequest ==
    [query |-> NoText, locality |-> NoText, year_range |-> NoText,
     property_type |-> NoText, year_from |-> AbsentYear, year_to |-> AbsentYear,
     format |-> NoText, path |-> ""]

\* no file payload
NoPayload == [content_type |-> "", filename |-> "", lines |-> <<>>, sheet |-> <<>>]

NoResponse ==
    [status |-> 0, error |-> "", details |-> {}, result |-> NoResult, ai_summary |-> FALSE,
     detail |-> "", payload |-> NoPayload]

NoCall ==
    [op |-> "", query |-> <<>>, filters |-> NoFilters, raised |-> "", rows |-> <<>>,
     result |-> NoResult, out_filters |-> NoFilters]

\* the state before a processor exists, in environment e
Blank(e, now) ==
    /\ env = e
    /\ current_year = now
    /\ excel_file_path = ""
    /\ data_url = ""
    /\ prefer_database = FALSE
    /\ df = NoDf
    /\ source = ""
    /\ load_error = ""
    /\ pc = "new"
    /\ request = NoRequest
    /\ response = NoResponse
    /\ calls = <<>>
    /\ last_call = NoCall
    /\ raw = RawNaN
    /\ cleaned = RawNaN
    /\ passes = 0
    /\ views = <<>>
    /\ processors = <<>>

\* RealEstateDataProcessor.__init__: the attributes are set, then load_data
\* runs; an exception of the load leaves the constructor
Construct(path_arg, url_arg, prefer) ==
    LET path == ResolveFilePath(path_arg, env)
        url == ResolveDataUrl(url_arg, env)
        l == LoadData(path, url, prefer, env)
    IN  /\ pc = "new"
        /\ excel_file_path' = path
        /\ data_url' = url
        /\ prefer_database' = prefer
        /\ df' = l.df
        /\ source' = l.source
        /\ load_error' = l.error
        /\ pc' = IF l.ok THEN "ready" ELSE "failed"
        /\ UNCHANGED <<views, processors, raw, cleaned, passes, env, current_year, request, response, calls, last_call>>

\* ------------------------------------------------------------------------
\* Specification of the load: any environment, any constructor arguments

\* Environments of the load.  Which source is read depends on the flags and
\* on whether the store is empty; what a source yields depends on its
\* content.  So the flags vary in full with every store over one plain
\* document, and every document varies with the file and path settings over
\* an empty store and over one that holds a row.
PlainDocument == [headers |-> HEADERS, rows |-> FixedDocRows]

OneRowStore ==
    <<StoreRow(t_Wakad, t_Pune, 2020, Num(100), Num(5), Num(3), Num(2), NumNaN, Num(1200))>>

LoadEnvs ==
    [db_registered : BOOLEAN,
     db_rows : LoadStores,
     file_status : {"missing", "empty", "present"},
     settings_path : {"", "data.xlsx"},
     settings_url : {"unset", "", "https://sheet.example/export.csv"},
     doc : {PlainDocument},
     ai : {"none"}]
    \cup
    [db_registered : {TRUE},
     db_rows : {<<>>, OneRowStore},
     file_status : {"missing", "empty", "present"},
     settings_path : {"", "data.xlsx"},
     settings_url : {"unset"},
     doc : Documents,
     ai : {"none"}]

InitLoad == \E e \in LoadEnvs : Blank(e, 2024)

ConstructAny ==
    \E path_arg \in {"", "import.csv"}, url_arg \in {"", "https://arg.example/data.csv"},
       prefer \in BOOLEAN :
        Construct(path_arg, url_arg, prefer)

NextLoad == ConstructAny

SpecLoad == InitLoad /\ [][NextLoad]_vars

\* ------------------------------------------------------------------------
\* Datasets that are filtered and queried

\* a store row for a location and a year, with figures that vary with both
AnalysisRow(loc, y) ==
    StoreRow(loc, t_Pune, y,
             Num((y - 2017) * 10),
             Num(y % 4),
             CASE y % 3 = 0 -> Num(0) [] y % 3 = 1 -> Num(2) [] OTHER -> NumNaN,
             IF loc = t_Wakad THEN Num(1) ELSE Num(0),
             IF y % 2 = 0 THEN Num(3) ELSE NumNaN,
             IF y = 2019 THEN NumNaN ELSE Num(100 * (y - 2017) + (IF loc = t_Wakad THEN 50 ELSE 25)))

AnalysisPool ==
    { AnalysisRow(t_Wakad, 2019), AnalysisRow(t_Wakad, 2021), AnalysisRow(t_Wakad, 2022),
      AnalysisRow(t_Baner, 2020), AnalysisRow(t_Baner, 2021), AnalysisRow(t_BANER, 2020) }

\* the rows of a set in the order of Meta.ordering = ['final_location', 'year']
RECURSIVE OrderedRows(_)
OrderedRows(S) ==
    IF S = {} THEN <<>>
    ELSE LET r == CHOOSE x \in S : \A y \in S : ~RowLess(y, x)
         IN  <<r>> \o OrderedRows(S \ {r})

\* Wakad and Baner for each of the years 2018..2023
ExampleStore ==
    OrderedRows({AnalysisRow(loc, y) : loc \in {t_Wakad, t_Baner}, y \in 2018..2023})

AnalysisStores ==
    {OrderedRows(S) : S \in {T \in SUBSET AnalysisPool : Cardinality(T) <= MaxStoreRows}}
    \cup {ExampleStore}

\* an environment whose store holds the rows given
StoreEnv(rows, ai) ==
    [db_registered |-> TRUE, db_rows |-> rows, file_status |-> "missing",
     settings_path |-> "data.xlsx", settings_url |-> "unset", doc |-> PlainDocument,
     ai |-> ai]

\* ------------------------------------------------------------------------
\* Inputs of filter_data and process_query

\* 'a-b' and 'last n' as text
RangeText(a, b) == IntToStr(a) \o t_dash \o IntToStr(b)
LastText(prefix, n, suffix) == prefix \o IntToStr(n) \o suffix

\* the year ranges written well, by their meaning
RangePairs == {<<2020, 2022>>, <<2019, 2019>>, <<2022, 2020>>}
LastForms == {<<t_last_, 1, <<>>>>, <<t_last_, 3, t_years>>, <<t_Last_, 2, <<>>>>}

WellFormedRanges ==
    {RangeText(p[1], p[2]) : p \in RangePairs}
    \cup {LastText(f[1], f[2], f[3]) : f \in LastForms}

\* year ranges that are neither 'last ' followed by an integer nor two
\* integers around one '-'
MalformedRanges ==
    {t_last, t_last_, t_last_x, t_abc_def, t_three_years, t_dash, t_y2020}

\* a year range inside other text
EmbeddedRanges == {t_from_range}

FilterLocalities == {<<>>, t_wakad, t_BANER, t_Pune}
FilterPropertyTypes == {<<>>, t_flat, t_Shop, t_villa, t_total}

FilterSets ==
    [locality : FilterLocalities,
     year_range : {<<>>} \cup WellFormedRanges \cup MalformedRanges \cup EmbeddedRanges,
     property_type : FilterPropertyTypes,
     year_from : {NoYear},
     year_to : {NoYear}]

\* query texts: up to MaxQueryParts fragments, joined
QueriesOf(fragments) ==
    {Concat(ps) : ps \in SeqsUpTo(fragments, MaxQueryParts) \ {<<>>}}

\* the queries of the direct calls
CallQueries == QueriesOf({t_q_2019, t_q_to_2021, t_q_wakad, t_q_last, t_q_shop})

\* filter sets process_query is called with directly
QueryFilterSets ==
    { NoFilters,
      [NoFilters EXCEPT !.locality = t_BANER],
      [NoFilters EXCEPT !.year_range = RangeText(2020, 2022), !.property_type = t_flat] }

\* ------------------------------------------------------------------------
\* Direct calls of the processor's methods

\* what a call of filter_data(filters) that came back with fd leaves
FilterDataReturns(filters, fd) ==
    /\ pc = "ready"
    /\ df' = [df EXCEPT !.rows = fd.df]
    /\ last_call' = [op |-> "filter_data", query |-> <<>>, filters |-> filters,
                     raised |-> fd.raised, rows |-> fd.rows, result |-> NoResult,
                     out_filters |-> filters]
    /\ pc' = "called"
    /\ UNCHANGED <<views, processors, raw, cleaned, passes, env, current_year, excel_file_path, data_url, prefer_database,
                   source, load_error, request, response, calls>>

\* filter_data(filters) called on the constructed processor
CallFilterData(filters) ==
    FilterDataReturns(filters, FilterData(df.rows, filters, current_year))

\* what a call of process_query(query, filters) that came back with pq leaves
ProcessQueryReturns(query, filters, pq) ==
    /\ pc = "ready"
    /\ df' = [df EXCEPT !.rows = pq.df]
    /\ last_call' = [op |-> "process_query", query |-> query, filters |-> filters,
                     raised |-> pq.raised, rows |-> pq.filtered,
                     result |-> IF pq.raised = "" THEN pq.result ELSE NoResult,
                     out_filters |-> pq.filters]
    /\ pc' = "called"
    /\ UNCHANGED <<views, processors, raw, cleaned, passes, env, current_year, excel_file_path, data_url, prefer_database,
                   source, load_error, request, response, calls>>

\* process_query(query, filters) called on the constructed processor
CallProcessQuery(query, filters) ==
    ProcessQueryReturns(query, filters, ProcessQuery(df.rows, query, filters, current_year))

\* the caller has taken what the call returned; the processor can be called again
Return ==
    /\ pc = "called"
    /\ pc' = "ready"
    /\ last_call' = NoCall
    /\ UNCHANGED <<views, processors, raw, cleaned, passes, env, current_year, excel_file_path, data_url, prefer_database, df,
                   source, load_error, request, response, calls>>

\* the views construct the processor without arguments
ViewInit == Construct("", "", TRUE)

InitFilter ==
    \E rows \in AnalysisStores, now \in {2022, 2024} : Blank(StoreEnv(rows, "none"), now)

NextFilter ==
    \/ ViewInit
    \/ \E filters \in FilterSets : CallFilterData(filters)
    \/ \E query \in CallQueries, filters \in QueryFilterSets : CallProcessQuery(query, filters)
    \/ Return

SpecFilter == InitFilter /\ [][NextFilter]_vars

\* ------------------------------------------------------------------------
\* Analysis requests: a view is constructed for the request, get or post
\* answers it, and the view is dropped

\* the text of a completion, as a summary
AI_SUMMARY == [GenerateSummary(<<>>) EXCEPT !.sentence = "completion text"]

\* _maybe_generate_ai_summary: None without a client or a query; None when
\* the completion call raises or its content is None (.strip() raises
\* inside the try); else the content stripped, which is '' for an empty or
\* blank content
MaybeGenerateAiSummary(query) ==
    IF env.ai = "none" \/ query = <<>> THEN [none |-> TRUE, summary |-> AI_SUMMARY]
    ELSE IF env.ai \in {"raises", "null"} THEN [none |-> TRUE, summary |-> AI_SUMMARY]
    ELSE IF env.ai = "empty"
    THEN [none |-> FALSE, summary |-> [AI_SUMMARY EXCEPT !.sentence = ""]]
    ELSE [none |-> FALSE, summary |-> AI_SUMMARY]

\* UseAiSummary for  if ai_summary is not None
UseAiSummaryUnlessNone(ai) == ~ai.none

\* if ai_summary:  the completion's text replaces the summary when there is
\* one and it is not ''
UseAiSummary(ai) == ~ai.none /\ ai.summary.sentence # ""

\* process_analysis once process_query has returned pq for the filters
\* given and the completion call has returned ai
ResponseOf(pq, ai) ==
    IF pq.raised # ""
    THEN [status |-> HTTP_500_INTERNAL_SERVER_ERROR,
          error |-> "An error occurred while processing your request",
          details |-> {}, result |-> NoResult, ai_summary |-> FALSE,
          detail |-> "", payload |-> NoPayload]
    ELSE [status |-> HTTP_200_OK, error |-> "", details |-> {},
          result |-> [pq.result EXCEPT
                         !.filters = pq.filters,
                         !.summary = IF UseAiSummary(ai) THEN ai.summary ELSE @],
          ai_summary |-> UseAiSummary(ai), detail |-> "", payload |-> NoPayload]

Respond(query, filters, pq, ai) ==
    /\ calls' = pq.calls
    /\ df' = [df EXCEPT !.rows = pq.df]
    /\ last_call' = [op |-> "process_query", query |-> query,
                     filters |-> filters, raised |-> pq.raised,
                     rows |-> pq.filtered,
                     result |-> IF pq.raised = "" THEN pq.result ELSE NoResult,
                     out_filters |-> pq.filters]
    /\ response' = ResponseOf(pq, ai)

\* process_analysis(data)
ProcessAnalysis(query, filters) ==
    Respond(query, filters, ProcessQuery(df.rows, query, filters, current_year),
            MaybeGenerateAiSummary(query))

\* the 400 of get/post for the errors of the serializer's verdict v
InvalidResponse(invalid_message, v) ==
    [status |-> HTTP_400_BAD_REQUEST, error |-> invalid_message,
     details |-> v.errors, result |-> NoResult,
     ai_summary |-> FALSE, detail |-> "", payload |-> NoPayload]

\* the answer of get/post to the serializer's verdict v
Answer(invalid_message, v) ==
    IF ~v.valid
    THEN /\ response' = InvalidResponse(invalid_message, v)
         /\ calls' = <<>>
         /\ last_call' = NoCall
         /\ df' = df
    ELSE ProcessAnalysis(v.data.query, ViewFilters(v.data))

\* get/post: the serializer's verdict, then process_analysis
Analyze(invalid_message, req) ==
    /\ pc = "ready"
    /\ request' = req
    /\ pc' = "done"
    /\ Answer(invalid_message, RunValidation(req))
    /\ UNCHANGED <<views, processors, raw, cleaned, passes, env, current_year, excel_file_path, data_url, prefer_database,
                   source, load_error>>

AnalysisGet(req) == Analyze("Invalid query parameters", req)

AnalysisPost(req) == Analyze("Invalid request data", req)

\* the response is sent and the view of the request is gone
Finish ==
    /\ pc = "done"
    /\ pc' = "new"
    /\ excel_file_path' = ""
    /\ data_url' = ""
    /\ prefer_database' = FALSE
    /\ df' = NoDf
    /\ source' = ""
    /\ load_error' = ""
    /\ request' = NoRequest
    /\ response' = NoResponse
    /\ calls' = <<>>
    /\ last_call' = NoCall
    /\ UNCHANGED <<views, processors, raw, cleaned, passes, env, current_year>>

\* ------------------------------------------------------------------------
\* DataExportView: DataFrame.to_csv / to_excel and their readers

\* the double quote of the csv dialect
QUOTE == "QUOTE"

\* the numeric columns of the frame that hold a NaN: their dtype is float64
FloatColumns(frame) ==
    {c \in Range(NUMERIC_COLUMNS) \ {"year"} : \E i \in DOMAIN frame : frame[i][c].nan}

\* the text to_csv writes for the value of a column: text as it is, an
\* integer in decimal, a number of a float column with its fraction, NaN as
\* nothing
CellText(col, value, floats) ==
    IF col \in TEXT_COLUMNS THEN value
    ELSE IF col = "year" THEN IntToStr(value)
    ELSE IF value.nan THEN <<>>
    ELSE IF col \in floats THEN IntToStr(value.v) \o <<".", "0">>
    ELSE IntToStr(value.v)

\* every quote of s doubled
RECURSIVE DoubleQuotes(_)
DoubleQuotes(s) ==
    IF s = <<>> THEN <<>>
    ELSE IF Head(s) = QUOTE THEN <<QUOTE, QUOTE>> \o DoubleQuotes(Tail(s))
    ELSE <<Head(s)>> \o DoubleQuotes(Tail(s))

\* CsvField that quotes nothing
CsvFieldUnquoted(s) == s

\* csv.QUOTE_MINIMAL: a field that holds the delimiter or a quote is quoted
CsvField(s) ==
    IF \E i \in DOMAIN s : s[i] \in {",", QUOTE}
    THEN <<QUOTE>> \o DoubleQuotes(s) \o <<QUOTE>>
    ELSE s

\* the fields joined by the delimiter
RECURSIVE CsvLine(_)
CsvLine(fields) ==
    IF fields = <<>> THEN <<>>
    ELSE IF Len(fields) = 1 THEN CsvField(fields[1])
    ELSE CsvField(fields[1]) \o <<",">> \o CsvLine(Tail(fields))

\* filtered_df.to_csv(buffer, index=False): the header line, then one line
\* per row, the columns in frame order
ToCsv(rows, floats) ==
    <<CsvLine([k \in DOMAIN DB_FIELDS |-> CanonicalText[k][1]])>> \o
    [i \in DOMAIN rows |->
        CsvLine([k \in DOMAIN DB_FIELDS |->
                    CellText(DB_FIELDS[k], rows[i][DB_FIELDS[k]], floats)])]

\* a doubled quote of the text of a quoted field read as one quote
RECURSIVE Undouble(_)
Undouble(s) ==
    IF s = <<>> THEN <<>>
    ELSE IF Head(s) = QUOTE /\ Len(s) >= 2 /\ s[2] = QUOTE
         THEN <<QUOTE>> \o Undouble(SubSeq(s, 3, Len(s)))
         ELSE <<Head(s)>> \o Undouble(Tail(s))

\* the position in line of the quote that closes the field opened by the
\* quote at position 1: the first quote that is not the first or second of
\* a doubled pair (Len(line) + 1 if the field is never closed)
ClosingQuote(line) ==
    LET quotes(j) == Cardinality({k \in 2..j : line[k] = QUOTE})
        closing == {j \in 2..Len(line) :
                       /\ line[j] = QUOTE
                       /\ quotes(j) % 2 = 1
                       /\ j = Len(line) \/ line[j + 1] # QUOTE}
    IN  IF closing = {} THEN Len(line) + 1 ELSE SetMin(closing)

\* the fields of one line as csv.reader splits it: a field that starts with
\* a quote runs to its closing quote, the text up to the next delimiter is
\* the rest of the field
RECURSIVE CsvSplit(_)
CsvSplit(line) ==
    LET quoted == line # <<>> /\ Head(line) = QUOTE
        e == IF quoted THEN ClosingQuote(line) ELSE 0
        field == IF quoted THEN Undouble(SubSeq(line, 2, e - 1)) ELSE <<>>
        rest == SubSeq(line, e + 1, Len(line))
        commas == {j \in DOMAIN rest : rest[j] = ","}
    IN  IF commas = {} THEN <<field \o rest>>
        ELSE <<field \o SubSeq(rest, 1, SetMin(commas) - 1)>>
             \o CsvSplit(SubSeq(rest, SetMin(commas) + 1, Len(rest)))

\* csv.DictReader over the lines: one record per line after the header,
\* keyed by the header's fields
ReadCsv(lines) ==
    IF lines = <<>> THEN [columns |-> <<>>, records |-> <<>>]
    ELSE LET header == CsvSplit(lines[1])
         IN  [columns |-> header,
              records |-> [i \in 1..(Len(lines) - 1) |->
                              CsvSplit(lines[i + 1])]]

\* a cell of the sheet to_excel writes: text, a number, or nothing for NaN
SheetCell(col, value) ==
    IF col \in TEXT_COLUMNS THEN [kind |-> "s", s |-> value, n |-> 0]
    ELSE IF col = "year" THEN [kind |-> "n", s |-> <<>>, n |-> value]
    ELSE IF value.nan THEN [kind |-> "blank", s |-> <<>>, n |-> 0]
    ELSE [kind |-> "n", s |-> <<>>, n |-> value.v]

\* filtered_df.to_excel(buffer, index=False): the header row, then one row
\* of cells per row of the frame
ToExcel(rows) ==
    <<[k \in DOMAIN DB_FIELDS |-> [kind |-> "s", s |-> CanonicalText[k][1], n |-> 0]]>> \o
    [i \in DOMAIN rows |->
        [k \in DOMAIN DB_FIELDS |-> SheetCell(DB_FIELDS[k], rows[i][DB_FIELDS[k]])]]

\* the sheet read back: the first row names the columns, each further row is
\* a record
ReadExcel(sheet) ==
    IF sheet = <<>> THEN [columns |-> <<>>, records |-> <<>>]
    ELSE [columns |-> [k \in DOMAIN sheet[1] |-> sheet[1][k].s],
          records |-> [i \in 1..(Len(sheet) - 1) |-> sheet[i + 1]]]

\* the formats ExportDataSerializer accepts
t_csv == <<"c", "s", "v">>
t_excel == <<"e", "x", "c", "e", "l">>
t_pdf == <<"p", "d", "f">>
EXPORT_FORMATS == {t_csv, t_excel}

\* ExportDataSerializer: format is a choice with default 'csv'
ExportFormatError(req) == req.format.given /\ req.format.s \notin EXPORT_FORMATS
ExportFormat(req) == IF req.format.given THEN req.format.s ELSE t_csv

\* the filters DataExportView.post takes from request.data as they are
ExportFilters(req) ==
    [locality |-> req.locality.s,
     year_range |-> req.year_range.s,
     property_type |-> req.property_type.s,
     year_from |-> IF req.year_from.given /\ ~req.year_from.null
                   THEN Year(req.year_from.v) ELSE NoYear,
     year_to |-> IF req.year_to.given /\ ~req.year_to.null
                 THEN Year(req.year_to.v) ELSE NoYear]

\* the file response for the rows and the format
ExportPayload(rows, format, floats) ==
    IF format = t_excel
    THEN [content_type |-> "application/vnd.openxmlformats-officedocument.spreadsheetml.sheet",
          filename |-> "real_estate_export.xlsx", lines |-> <<>>, sheet |-> ToExcel(rows)]
    ELSE [content_type |-> "text/csv", filename |-> "real_estate_export.csv",
          lines |-> ToCsv(rows, floats), sheet |-> <<>>]

\* post after filter_data has returned fd: 404 for an empty frame, else the file
ExportRespond(req, filters, l, fd) ==
    /\ pc' = "done"
    /\ df' = [l.df EXCEPT !.rows = fd.df]
    /\ load_error' = ""
    /\ calls' = <<"filter_data">>
    /\ last_call' = [op |-> "filter_data", query |-> <<>>, filters |-> filters,
                     raised |-> fd.raised, rows |-> fd.rows, result |-> NoResult,
                     out_filters |-> filters]
    /\ response' =
          IF fd.rows = <<>>
          THEN [NoResponse EXCEPT !.status = HTTP_404_NOT_FOUND,
                                  !.detail = "No data available for the specified filters."]
          ELSE [NoResponse EXCEPT !.status = HTTP_200_OK,
                                  !.payload = ExportPayload(fd.rows, ExportFormat(req),
                                                            FloatColumns(l.df.rows))]

\* post after RealEstateDataProcessor() has loaded l: nothing in post catches
\* the exception of a load that failed
ExportLoaded(req, l) ==
    /\ source' = l.source
    /\ IF ~l.ok
       THEN /\ pc' = "failed"
            /\ df' = l.df
            /\ load_error' = l.error
            /\ UNCHANGED <<response, calls, last_call>>
       ELSE ExportRespond(req, ExportFilters(req), l,
                          FilterData(l.df.rows, ExportFilters(req), current_year))

\* DataExportView.post: is_valid(raise_exception=True) answers 400 through the
\* framework; else the processor is constructed and the rows are filtered
DataExportPost(req) ==
    /\ pc = "new"
    /\ request' = req
    /\ IF ExportFormatError(req)
       THEN /\ pc' = "done"
            /\ response' = [NoResponse EXCEPT !.status = HTTP_400_BAD_REQUEST,
                                              !.details = {"format"}]
            /\ UNCHANGED <<excel_file_path, data_url, prefer_database, df, source,
                           load_error, calls, last_call>>
       ELSE /\ excel_file_path' = ResolveFilePath("", env)
            /\ data_url' = ResolveDataUrl("", env)
            /\ prefer_database' = TRUE
            /\ ExportLoaded(req, LoadData(ResolveFilePath("", env), ResolveDataUrl("", env),
                                          TRUE, env))
    /\ UNCHANGED <<views, processors, raw, cleaned, passes, env, current_year>>

\* export requests: the format given or not, with and without filters
ExportRequests ==
    {[NoRequest EXCEPT !.path = "export/", !.format = f, !.locality = l, !.year_range = yr,
                       !.property_type = pt, !.year_from = ys[1], !.year_to = ys[2]] :
        ys \in {<<AbsentYear, AbsentYear>>, <<GivenYear(2020), GivenYear(2021)>>},
        f \in {NoText, GivenText(t_csv), GivenText(t_excel), GivenText(t_pdf)},
        l \in {NoText, GivenText(t_wakad), GivenText(t_aundh)},
        yr \in {NoText, GivenText(RangeText(2020, 2022)), GivenText(t_last_)},
        pt \in {NoText, GivenText(t_flat)}}

\* requests about the years: with and without year_from and year_to, over
\* queries with none, one or several 4-digit numbers
YearQueries == QueriesOf({t_q_2023, t_q_2019, t_q_to_2021, t_q_run, t_q_wakad})

YearRequests ==
    {[NoRequest EXCEPT !.path = "analyze/", !.query = q, !.year_from = a, !.year_to = b] :
        q \in {NoText, GivenText(<<" ">>)} \cup {GivenText(s) : s \in YearQueries},
        a \in {AbsentYear, NullYear, GivenYear(2020), GivenYear(2023), GivenYear(1999)},
        b \in {AbsentYear, GivenYear(2020), GivenYear(2022), GivenYear(2101)}}

\* requests with locality, year_range and property_type supplied or not,
\* over queries that name a locality, a range or a property type
OverrideQueries == QueriesOf({t_q_Baner, t_q_last, t_q_shop, t_q_range})

OverrideRequests ==
    {[NoRequest EXCEPT !.path = "analyze/", !.query = GivenText(s), !.locality = l, !.year_range = yr,
                       !.property_type = pt] :
        s \in OverrideQueries,
        l \in {NoText, GivenText(<<>>), GivenText(t_wakad)},
        yr \in {NoText, GivenText(LastText(t_last_, 2, <<>>)), GivenText(RangeText(2020, 2022))},
        pt \in {NoText, GivenText(t_flat), GivenText(t_villa)}}

\* requests that name localities in the query and supply none
LocalityQueries == QueriesOf({t_q_wakad, t_q_Baner, t_aundh})

LocalityRequests ==
    {[NoRequest EXCEPT !.path = "analyze/", !.query = GivenText(s)] : s \in LocalityQueries}

Requests == YearRequests \cup OverrideRequests \cup LocalityRequests

\* no store, no file, no URL: the load fails
NoSourceEnv ==
    [db_registered |-> FALSE, db_rows |-> <<>>, file_status |-> "missing",
     settings_path |-> "data.xlsx", settings_url |-> "", doc |-> PlainDocument,
     ai |-> "none"]

\* a store with a locality whose name holds a comma
CommaStore ==
    <<StoreRow(<<"B", "a", "n", "e", "r", ",", " ", "W">>, <<"P", QUOTE, "u", QUOTE>>, 2021,
               Num(40), Num(2), Num(2), NumNaN, NumNaN, Num(700)),
      StoreRow(t_Wakad, <<>>, 2021, NumNaN, NumNaN, NumNaN, NumNaN, NumNaN, NumNaN)>>

\* the store of the example without a completion client, a one-row store
\* whose client raises or answers without text (content '' or None), a
\* local file with a client that answers, and no source at all
RequestEnvs ==
    {StoreEnv(ExampleStore, "none"),
     StoreEnv(CommaStore, "none"),
     StoreEnv(OneRowStore, "raises"),
     StoreEnv(OneRowStore, "empty"),
     StoreEnv(OneRowStore, "null"),
     [NoSourceEnv EXCEPT !.file_status = "present", !.ai = "text"],
     NoSourceEnv}

Init == \E e \in RequestEnvs : Blank(e, 2024)

Next ==
    \/ ViewInit
    \/ \E req \in Requests : AnalysisGet(req)
    \/ \E req \in Requests : AnalysisPost(req)
    \/ \E req \in ExportRequests : DataExportPost(req)
    \/ Finish

Spec == Init /\ [][Next]_vars

\* ------------------------------------------------------------------------
\* Numeric cleaning on its own: a raw cell is cleaned, and cleaned again

MaxCellParts == 3
MaxPasses == 2

\* raw cells: NaN, numbers, and texts of up to MaxCellParts fragments
CellFragments ==
    {<<"RUPEE">>, <<",">>, <<" ">>, <<"1">>, <<"2", "0", "0">>, <<"N", "A">>,
     <<"n", "a">>, <<"N", "a">>, <<"x">>, <<"-">>}

RawCells ==
    {RawNaN, RawNum(0), RawNum(1200), RawStr(t_rupee_1200)}
    \cup {RawStr(Concat(ps)) : ps \in SeqsUpTo(CellFragments, MaxCellParts)}

InitClean ==
    /\ \E v \in RawCells : raw = v /\ cleaned = v
    /\ passes = 0
    /\ env = NoSourceEnv
    /\ current_year = 2024
    /\ excel_file_path = ""
    /\ data_url = ""
    /\ prefer_database = FALSE
    /\ df = NoDf
    /\ source = ""
    /\ load_error = ""
    /\ pc = "clean"
    /\ request = NoRequest
    /\ response = NoResponse
    /\ calls = <<>>
    /\ last_call = NoCall
    /\ views = <<>>
    /\ processors = <<>>

\* df[col].apply(self._clean_numeric_value) on the cell
CleanValue ==
    /\ pc = "clean"
    /\ passes < MaxPasses
    /\ cleaned' = CleanNumericValue(cleaned)
    /\ passes' = passes + 1
    /\ UNCHANGED <<raw, env, current_year, excel_file_path, data_url, prefer_database,
                   df, source, load_error, pc, request, response, calls, last_call,
                   views, processors>>

SpecClean == InitClean /\ [][CleanValue]_vars

\* ------------------------------------------------------------------------
\* Concurrent analysis requests over one data source
\*
\* as_view() builds a view instance for each request; the instance builds its
\* processor, which loads the dataset. The steps of the requests interleave.

MaxConcurrent == 2

Runs == 1..MaxConcurrent

\* a request not yet dispatched: no view instance (overlapped records that
\* another request was being served during this one)
NoView ==
    [pc |-> "idle", request |-> NoRequest, invalid_message |-> "", processor |-> 0,
     query |-> <<>>, filters |-> NoFilters, raised |-> "", filtered |-> <<>>,
     response |-> NoResponse, overlapped |-> FALSE]

\* no processor object
NoProcessor == [df |-> NoDf, loads |-> 0, load_error |-> ""]

\* all requests served by the processor object of the first
SharedProcessor(r) == 1

\* self.processor = RealEstateDataProcessor(): the processor object of the
\* view instance of request r is its own
Processor(r) == r

\* the requests served concurrently, each with the message of its method
ConcurrentRequests ==
    {<<[NoRequest EXCEPT !.path = "analyze/", !.query = GivenText(t_q_wakad)],
       "Invalid query parameters">>,
     <<[NoRequest EXCEPT !.path = "analyze/", !.query = GivenText(t_q_Baner),
                         !.year_range = GivenText(RangeText(2020, 2022))],
       "Invalid request data">>,
     <<[NoRequest EXCEPT !.path = "analyze/", !.query = GivenText(t_q_last \o t_q_shop)],
       "Invalid query parameters">>,
     <<[NoRequest EXCEPT !.path = "analyze/", !.query = GivenText(t_q_2023 \o t_q_2019),
                         !.year_from = GivenYear(2023), !.year_to = GivenYear(2020)],
       "Invalid request data">>}

ConcurrentEnvs ==
    {StoreEnv(ExampleStore, "none"), StoreEnv(OneRowStore, "text"), NoSourceEnv}

InitConcurrent ==
    /\ env \in ConcurrentEnvs
    /\ current_year = 2024
    /\ views = [r \in Runs |-> NoView]
    /\ processors = [r \in Runs |-> NoProcessor]
    /\ excel_file_path = ""
    /\ data_url = ""
    /\ prefer_database = FALSE
    /\ df = NoDf
    /\ source = ""
    /\ load_error = ""
    /\ pc = "serving"
    /\ request = NoRequest
    /\ response = NoResponse
    /\ calls = <<>>
    /\ last_call = NoCall
    /\ raw = RawNaN
    /\ cleaned = RawNaN
    /\ passes = 0

\* the request of run s is being served
InService(s) == views[s].pc \in {"validate", "extract", "filter", "analyze"}

\* the view instance of request r after __init__ has loaded l into the
\* processor p
Dispatched(r, req, invalid_message, p, l) ==
    /\ processors' = [processors EXCEPT ![p] = [df |-> l.df, loads |-> @.loads + 1,
                                                load_error |-> l.error]]
    /\ views' = [s \in Runs |->
                    IF s = r
                    THEN [NoView EXCEPT !.pc = IF l.ok THEN "validate" ELSE "failed",
                                        !.request = req,
                                        !.invalid_message = invalid_message,
                                        !.processor = p,
                                        !.overlapped = \E o \in Runs : InService(o)]
                    ELSE [views[s] EXCEPT !.overlapped = @ \/ InService(s)]]

\* as_view(): the view instance of the request is built
Dispatch(r, req, invalid_message) ==
    /\ views[r].pc = "idle"
    /\ Dispatched(r, req, invalid_message, Processor(r),
                  LoadData(ResolveFilePath("", env), ResolveDataUrl("", env), TRUE, env))

\* get/post of request r after the serializer's verdict v
Validated(r, v) ==
    views' = [views EXCEPT ![r] =
                 IF ~v.valid
                 THEN [@ EXCEPT !.pc = "done",
                                !.response = InvalidResponse(views[r].invalid_message, v)]
                 ELSE [@ EXCEPT !.pc = "extract",
                                !.query = v.data.query,
                                !.filters = ViewFilters(v.data)]]

\* get/post up to the call of process_query
Validate(r) ==
    /\ views[r].pc = "validate"
    /\ Validated(r, RunValidation(views[r].request))
    /\ UNCHANGED processors

\* process_query of request r: the filters the query implies are written to
\* the request's own filters
Extract(r) ==
    /\ views[r].pc = "extract"
    /\ views' = [views EXCEPT ![r].pc = "filter",
                              ![r].filters = ExtractFilters(processors[views[r].processor].df.rows,
                                                            views[r].query, @)]
    /\ UNCHANGED processors

\* process_query of request r after filter_data has returned fd
Filtered(r, fd) ==
    /\ views' = [views EXCEPT ![r].pc = "analyze",
                              ![r].raised = fd.raised,
                              ![r].filtered = fd.rows]
    /\ processors' = [processors EXCEPT ![views[r].processor].df.rows = fd.df]

\* process_query of request r: self.filter_data(filters)
Filter(r) ==
    /\ views[r].pc = "filter"
    /\ Filtered(r, FilterData(processors[views[r].processor].df.rows, views[r].filters,
                              current_year))

\* the rest of process_query and of process_analysis for request r
Summarize(r) ==
    /\ views[r].pc = "analyze"
    /\ views' = [views EXCEPT
                    ![r].pc = "done",
                    ![r].response =
                        ResponseOf(AnalysisOf(views[r].query, views[r].filters,
                                              [raised |-> views[r].raised,
                                               rows |-> views[r].filtered,
                                               df |-> processors[views[r].processor].df.rows]),
                                   MaybeGenerateAiSummary(views[r].query))]
    /\ UNCHANGED processors

NextConcurrent ==
    /\ \E r \in Runs :
          \/ \E req \in ConcurrentRequests : Dispatch(r, req[1], req[2])
          \/ Validate(r)
          \/ Extract(r)
          \/ Filter(r)
          \/ Summarize(r)
    /\ UNCHANGED <<env, current_year, excel_file_path, data_url, prefer_database, df, source,
                   load_error, pc, request, response, calls, last_call, raw, cleaned, passes>>

SpecConcurrent == InitConcurrent /\ [][NextConcurrent]_vars

\* ------------------------------------------------------------------------
\* Claims about the load (checked under SpecLoad)

\* C8: in every dataset produced by a successful load, every row has a
\* non-empty final_location, a non-empty city and an integer year.
C8_RowsHaveKeys ==
    pc = "ready" =>
        \A i \in DOMAIN df.rows :
            /\ df.rows[i]["final_location"] # <<>>
            /\ df.rows[i]["city"] # <<>>
            /\ df.rows[i]["year"] \in Int

\* C9: in every dataset produced by a successful load, no two rows share the
\* same (final_location, year, city) triple.
C9_KeysUnique == pc = "ready" => UniqueTogether(df.rows)

\* C10: the row source is chosen by strict priority: the store iff
\* prefer_database is set and the store holds a row; otherwise the local file
\* iff a path is set and the file exists and is not empty; otherwise the URL
\* iff one is set; and with no usable file and no URL the load fails with
\* FileNotFoundError and the processor holds no dataset.
StoreHasRows == env.db_registered /\ env.db_rows # <<>>
FileUsable == excel_file_path # "" /\ env.file_status = "present"

C10_SourcePriority ==
    pc # "new" =>
        /\ source = "database" <=> (prefer_database /\ StoreHasRows)
        /\ source = "file" <=> (~(prefer_database /\ StoreHasRows) /\ FileUsable)
        /\ source = "url" <=>
              (~(prefer_database /\ StoreHasRows) /\ ~FileUsable /\ data_url # "")
        /\ (~(prefer_database /\ StoreHasRows) /\ ~FileUsable /\ data_url = "")
              => (pc = "failed" /\ load_error = "FileNotFoundError" /\ df.none)

\* C10 witness: the store is preferred but empty, no file is usable, and the
\* dataset was loaded from the URL.
C10_Witness ==
    /\ pc = "ready"
    /\ prefer_database
    /\ env.db_rows = <<>>
    /\ env.file_status = "empty"
    /\ source = "url"
    /\ df.rows # <<>>

\* ------------------------------------------------------------------------
\* Claims about filter_data and process_query (checked under SpecFilter)

\* a and b are equal up to the case of their letters
SameIgnoringCase(a, b) ==
    /\ Len(a) = Len(b)
    /\ \A i \in DOMAIN a :
          \/ a[i] = b[i]
          \/ \E k \in DOMAIN UpperAlpha : {a[i], b[i]} = {UpperAlpha[k], LowerAlpha[k]}

\* the sold column each property type of the inputs stands for ("" if none)
PropertyMeaning ==
    {<<t_flat, "flat_sold">>, <<t_Shop, "shop_sold">>, <<t_total, "total_sold">>,
     <<t_villa, "">>}

\* row r satisfies every filter of f that is supplied, read by its meaning
Satisfies(r, f) ==
    /\ f.locality # <<>> => SameIgnoringCase(r["final_location"], f.locality)
    /\ \A p \in RangePairs :
          f.year_range = RangeText(p[1], p[2]) => (p[1] <= r["year"] /\ r["year"] <= p[2])
    /\ \A l \in LastForms :
          f.year_range = LastText(l[1], l[2], l[3]) => r["year"] >= current_year - l[2]
    /\ \A m \in PropertyMeaning :
          (f.property_type = m[1] /\ m[2] # "") => (~r[m[2]].nan /\ r[m[2]].v > 0)

\* C4: filter_data returns exactly the rows of the dataset that satisfy the
\* conjunction of every supplied filter (locality: equality ignoring case;
\* 'YYYY-YYYY': start <= year <= end; 'last N': year >= current_year - N;
\* property type p: p_sold > 0), an empty filter imposing no constraint.
C4_FilterExact ==
    (/\ pc = "called"
     /\ last_call.op = "filter_data"
     /\ last_call.filters.year_range \in {<<>>} \cup WellFormedRanges)
    => /\ last_call.raised = ""
       /\ last_call.rows = SelectSeq(df.rows, LAMBDA r : Satisfies(r, last_call.filters))

\* C4 witness: Wakad and Baner rows for 2018..2023 filtered by
\* {locality: 'wakad', year_range: '2020-2022'} give the three Wakad rows
\* of 2020..2022.
C4_Witness ==
    /\ pc = "called"
    /\ last_call.op = "filter_data"
    /\ Len(df.rows) = 12
    /\ last_call.filters.locality = t_wakad
    /\ last_call.filters.year_range = RangeText(2020, 2022)
    /\ last_call.filters.property_type = <<>>
    /\ Len(last_call.rows) = 3
    /\ \A i \in DOMAIN last_call.rows :
          /\ last_call.rows[i]["final_location"] = t_Wakad
          /\ last_call.rows[i]["year"] \in 2020..2022

\* C5: for a malformed year_range, filter_data raises no error and applies
\* no year filtering: its result is the result for an empty year_range with
\* the other filters unchanged.
C5_MalformedRangeIgnored ==
    (/\ pc = "called"
     /\ last_call.op = "filter_data"
     /\ last_call.filters.year_range \in MalformedRanges)
    => /\ last_call.raised = ""
       /\ last_call.rows =
             PropertyStep(LocalityStep(df.rows, last_call.filters.locality),
                          last_call.filters.property_type)

\* C5 witness: 'last ' (no number: an IndexError inside filter_data) leaves
\* rows of more than one year in the result.
C5_Witness ==
    /\ pc = "called"
    /\ last_call.op = "filter_data"
    /\ last_call.filters.year_range = t_last_
    /\ last_call.raised = ""
    /\ Cardinality({last_call.rows[i]["year"] : i \in DOMAIN last_call.rows}) > 1

\* C6: once the processor is constructed, no call of filter_data or
\* process_query changes the dataset it holds.
C6_DatasetUnchanged == [][(pc \in {"ready", "called"}) => (df' = df)]_vars

\* C6 witness: a process_query call has returned a proper, non-empty part of
\* the dataset.
C6_Witness ==
    /\ pc = "called"
    /\ last_call.op = "process_query"
    /\ last_call.rows # <<>>
    /\ Len(last_call.rows) < Len(df.rows)

\* C7: whenever the filtered row set is empty, the result of process_query
\* has the fixed 'no data' sentence as summary, chart_data
\* {labels: [], datasets: []} and an empty table_data.
C7_EmptyResult ==
    (/\ pc = "called"
     /\ last_call.op = "process_query"
     /\ last_call.raised = ""
     /\ last_call.rows = <<>>)
    => /\ last_call.result.summary.sentence = "No data available for the specified filters."
       /\ last_call.result.chart_data = [labels |-> <<>>, datasets |-> <<>>]
       /\ last_call.result.table_data = <<>>

\* C7 witness: a query over a dataset that has rows, whose filters no row
\* satisfies.
C7_Witness ==
    /\ pc = "called"
    /\ last_call.op = "process_query"
    /\ df.rows # <<>>
    /\ last_call.rows = <<>>
    /\ last_call.out_filters.locality # <<>>

\* ------------------------------------------------------------------------
\* Claims about analysis requests (checked under Spec)

\* C1: a request in which year_from and year_to are both supplied and
\* year_from > year_to is rejected with a validation error, and neither
\* process_query nor filter_data runs for it: no result is produced.
C1_YearOrderRejected ==
    (/\ pc = "done"
     /\ request.year_from.given /\ ~request.year_from.null
     /\ request.year_to.given /\ ~request.year_to.null
     /\ request.year_from.v > request.year_to.v)
    => /\ response.status = 400
       /\ response.details # {}
       /\ calls = <<>>
       /\ last_call = NoCall
       /\ response.result = NoResult

\* C1 witness: year_from=2023, year_to=2020 with a query that is fine is
\* answered 400 for the order of the years alone.
C1_Witness ==
    /\ pc = "done"
    /\ request.year_from = GivenYear(2023)
    /\ request.year_to = GivenYear(2020)
    /\ response.status = 400
    /\ response.details = {"non_field_errors"}
    /\ calls = <<>>

\* C2: a year_from or year_to the caller supplies is never replaced by a
\* year inferred from the query text: each supplied year field has the same
\* value after validation as before, for every query.
C2_SuppliedYearsKept ==
    (pc = "done" /\ response.status = 200)
    => /\ (request.year_from.given /\ ~request.year_from.null)
              => response.result.filters.year_from = Year(request.year_from.v)
       /\ (request.year_to.given /\ ~request.year_to.null)
              => response.result.filters.year_to = Year(request.year_to.v)

\* C3: every non-empty locality, year_range or property_type the caller
\* supplies is the value reported in the result's filters and the value
\* filter_data is called with, whatever the query would infer.
C3_OverridesReported ==
    (pc = "done" /\ request.path = "analyze/" /\ response.status = 200)
    => \A f \in {"locality", "year_range", "property_type"} :
          (request[f].given /\ request[f].s # <<>>)
              => /\ response.result.filters[f] = request[f].s
                 /\ last_call.out_filters[f] = request[f].s

\* the part of C3 that concerns locality and property_type
OverridesReportedButYearRange ==
    (pc = "done" /\ request.path = "analyze/" /\ response.status = 200)
    => \A f \in {"locality", "property_type"} :
          (request[f].given /\ request[f].s # <<>>)
              => /\ response.result.filters[f] = request[f].s
                 /\ last_call.out_filters[f] = request[f].s

\* C11: when the completion client is absent, raises or returns no text, the
\* request has the outcome validation alone decides (200 for a valid
\* request), and the summary of the response is the locally generated one.
C11_EnrichmentFallback ==
    (pc = "done" /\ request.path = "analyze/" /\ env.ai \in {"none", "raises", "empty", "null"})
    => /\ response.status = IF RunValidation(request).valid THEN 200 ELSE 400
       /\ response.status = 200
             => /\ response.result.summary = GenerateSummary(last_call.rows)
                /\ ~response.ai_summary

\* C11 witness: a client whose completion has no text, and a request
\* answered 200 with the statistics of the rows found.
C11_Witness ==
    /\ pc = "done"
    /\ env.ai = "empty"
    /\ response.status = 200
    /\ last_call.rows # <<>>
    /\ response.result.summary.sentence = STATS_SENTENCE

\* the bodies of the generic failure responses
GENERIC_ERRORS == {"An error occurred while processing your request"}

\* C12: a failure raised while a request is processed never leaves the
\* request handler (pc "failed" is an exception that left it): it is
\* answered 500 with a generic body.
C12_FailuresAnswered ==
    (pc = "failed" \/ load_error # "")
    => /\ pc = "done"
       /\ response.status = 500
       /\ response.error \in GENERIC_ERRORS

\* ------------------------------------------------------------------------
\* Claims about numeric cleaning (checked under SpecClean)

\* the cell holds text that reads 'na' in some letter case, or ''
IsNaText(cell) ==
    /\ cell.k = "str"
    /\ \/ cell.s = <<>>
       \/ /\ Len(cell.s) = 2
          /\ cell.s[1] \in {"n", "N"}
          /\ cell.s[2] \in {"a", "A"}

\* C13: numeric cleaning is idempotent, clean(clean(v)) = clean(v) for every
\* raw cell v; the cleaned 'RUPEE 1,200' reads as the number 1200, and 'NA'
\* in any letter case or '' is cleaned to missing.
C13_CleanIdempotent ==
    passes >= 1
    => /\ cleaned = CleanNumericValue(raw)
       /\ raw = RawStr(t_rupee_1200) => ToNumeric(cleaned) = Num(1200)
       /\ IsNaText(raw) => cleaned = RawNaN

\* C13 witness: text with a currency glyph, a separator and blanks has been
\* cleaned twice and is text still.
C13_Witness ==
    /\ passes = 2
    /\ raw.k = "str"
    /\ "RUPEE" \in Range(raw.s)
    /\ " " \in Range(raw.s)
    /\ cleaned.k = "str"
    /\ cleaned # raw

\* ------------------------------------------------------------------------
\* Claims about the year extraction of validation (checked under Spec)

\* the request supplies the year field with a value
Supplied(y) == y.given /\ ~y.null

\* the 4-digit numbers the scan of the request's query finds
QueryYears ==
    LET found == FindAllYears(request.query.s)
    IN  {DigitsValue(found[i]) : i \in DOMAIN found}

\* the number of 4-digit numbers the scan finds, repeats counted
QueryYearCount == Len(FindAllYears(request.query.s))

\* what the request itself says of a year field
AsSupplied(y) == IF Supplied(y) THEN Year(y.v) ELSE NoYear

\* C14: when year_from and year_to are not both supplied and the query
\* holds two or more 4-digit numbers, year_from is the least and year_to the
\* greatest of them, whatever their order in the text; with fewer than two
\* neither field is inferred.
C14_YearsAreMinMax ==
    (pc = "done" /\ response.status = 200 /\ request.query.given
        /\ ~(Supplied(request.year_from) /\ Supplied(request.year_to)))
    => IF QueryYearCount >= 2
       THEN /\ response.result.filters.year_from = Year(SetMin(QueryYears))
            /\ response.result.filters.year_to = Year(SetMax(QueryYears))
       ELSE /\ response.result.filters.year_from = AsSupplied(request.year_from)
            /\ response.result.filters.year_to = AsSupplied(request.year_to)

\* C14 witness: a query naming the later year first was answered with the
\* earlier year as year_from.
C14_Witness ==
    /\ pc = "done"
    /\ response.status = 200
    /\ request.query.s = t_q_2023 \o t_q_2019
    /\ ~request.year_from.given
    /\ ~request.year_to.given
    /\ response.result.filters.year_from = Year(2019)
    /\ response.result.filters.year_to = Year(2023)

\* ------------------------------------------------------------------------
\* Claims about the export (checked under Spec)

\* the payload of the response decoded by a reader of its format
Decoded ==
    IF response.payload.content_type = "text/csv"
    THEN ReadCsv(response.payload.lines)
    ELSE ReadExcel(response.payload.sheet)

\* the position of the column named c among the decoded columns (0 if none)
DecodedColumn(c) ==
    LET at == {k \in DOMAIN Decoded.columns :
                  \E j \in DOMAIN CanonicalText :
                      CanonicalText[j][2] = c /\ CanonicalText[j][1] = Decoded.columns[k]}
    IN  IF at = {} THEN 0 ELSE SetMin(at)

\* the decoded record is the record of the row: as many fields as columns,
\* its locality and its year those of the row
RecordOf(rec, row) ==
    /\ Len(rec) = Len(Decoded.columns)
    /\ DecodedColumn("final_location") # 0
    /\ DecodedColumn("year") # 0
    /\ IF response.payload.content_type = "text/csv"
       THEN /\ rec[DecodedColumn("final_location")] = row.final_location
            /\ ParseInt(rec[DecodedColumn("year")]) = [ok |-> TRUE, val |-> row.year]
       ELSE /\ rec[DecodedColumn("final_location")].s = row.final_location
            /\ rec[DecodedColumn("year")].n = row.year

\* C15: the export answers the 'no data' 404 exactly when the filtered set
\* is empty; otherwise, in csv and in excel, the decoded payload holds one
\* record per filtered row, in row order, under exactly the columns of the
\* filtered frame.
C15_ExportRoundTrip ==
    (pc = "done" /\ request.path = "export/" /\ response.status # 400)
    => /\ (response.status = 404) <=> (last_call.rows = <<>>)
       /\ response.status = 404
             => response.detail = "No data available for the specified filters."
       /\ last_call.rows # <<>>
             => /\ response.status = 200
                /\ response.payload.content_type =
                       IF ExportFormat(request) = t_excel
                       THEN "application/vnd.openxmlformats-officedocument.spreadsheetml.sheet"
                       ELSE "text/csv"
                /\ Len(Decoded.columns) = Len(DB_FIELDS)
                /\ \A c \in Range(DB_FIELDS) : DecodedColumn(c) # 0
                /\ Len(Decoded.records) = Len(last_call.rows)
                /\ \A i \in DOMAIN last_call.rows :
                       RecordOf(Decoded.records[i], last_call.rows[i])

\* C15 witness: a csv export of two rows, one of them with a delimiter in
\* its locality and a NaN cell.
C15_Witness ==
    /\ pc = "done"
    /\ request.path = "export/"
    /\ response.status = 200
    /\ response.payload.content_type = "text/csv"
    /\ Len(last_call.rows) = 2
    /\ \E i \in DOMAIN last_call.rows :
          /\ "," \in Range(last_call.rows[i].final_location)
          /\ last_call.rows[i].commercial_sold.nan

\* C15 witness of the other cases: an excel export, and a 404
C15_WitnessExcel ==
    /\ pc = "done"
    /\ request.path = "export/"
    /\ response.status = 200
    /\ response.payload.sheet # <<>>
    /\ Len(last_call.rows) >= 2

\* ------------------------------------------------------------------------
\* Claims about concurrent requests (checked under SpecConcurrent)

\* the response the view gives the request when it is the only one: the
\* dataset loaded, the request validated, process_query run in one piece
AloneAnswer(req, invalid_message, v, rows) ==
    IF ~v.valid THEN InvalidResponse(invalid_message, v)
    ELSE ResponseOf(ProcessQuery(rows, v.data.query, ViewFilters(v.data), current_year),
                    MaybeGenerateAiSummary(v.data.query))

Alone(req, invalid_message) ==
    AloneAnswer(req, invalid_message, RunValidation(req),
                LoadData(ResolveFilePath("", env), ResolveDataUrl("", env), TRUE, env).df.rows)

\* C16: whatever the interleaving of the concurrent requests, each request
\* that is answered has the filters and the result it has when run alone,
\* and each request dispatched has loaded the dataset once into a processor
\* of its own.
C16_RequestsIndependent ==
    \A r \in Runs :
        /\ views[r].pc = "done"
              => views[r].response = Alone(views[r].request, views[r].invalid_message)
        /\ views[r].pc # "idle" => processors[r].loads = 1
        /\ views[r].pc = "idle" => processors[r].loads = 0

\* C16 witness: two requests with different filters, both answered with a
\* result, each served while the other was.
C16_Witness ==
    /\ views[1].pc = "done"
    /\ views[2].pc = "done"
    /\ views[1].overlapped
    /\ views[2].overlapped
    /\ views[1].response.status = 200
    /\ views[2].response.status = 200
    /\ views[1].response.result.filters # views[2].response.result.filters
    /\ views[1].response.result.table_data # <<>>
    /\ processors[1].loads = 1
    /\ processors[2].loads = 1

\* ------------------------------------------------------------------------
\* Claims about the inference of the locality (checked under Spec)

\* the request supplies no locality
NoLocalityOverride == ~request.locality.given \/ Strip(request.locality.s) = <<>>

\* the first locality of the dataset, in the order of its rows, whose
\* lowered name occurs in the lowered text (<<>> if there is none)
FirstKnownLocality(rows, text) ==
    LET hits == {i \in DOMAIN rows :
                    Contains(Lower(text), Lower(rows[i]["final_location"]))}
    IN  IF hits = {} THEN <<>> ELSE rows[SetMin(hits)]["final_location"]

\* the value of the first key of the fixed table that occurs in the lowered
\* text (<<>> if there is none)
FirstTableLocality(text) ==
    LET hits == {k \in DOMAIN LOCALITY_MAPPING :
                    Contains(Lower(text), LOCALITY_MAPPING[k][1])}
    IN  IF hits = {} THEN <<>> ELSE LOCALITY_MAPPING[SetMin(hits)][2]

\* C17: with no locality supplied and the dataset's localities at hand, the
\* locality of the answer is the first known locality, in list order, whose
\* lowered name occurs in the lowered query; the fixed keyword table has no
\* say.
C17_KnownLocalityFirst ==
    (pc = "done" /\ request.path = "analyze/" /\ response.status = 200
        /\ NoLocalityOverride /\ ~df.none)
    => response.result.filters.locality = FirstKnownLocality(df.rows, request.query.s)

\* what holds instead: the fixed table decides whenever one of its keys
\* occurs in the query, and the dataset's localities only when none does
TableLocalityFirst ==
    (pc = "done" /\ request.path = "analyze/" /\ response.status = 200
        /\ NoLocalityOverride /\ ~df.none)
    => response.result.filters.locality =
           IF FirstTableLocality(request.query.s) # <<>>
           THEN FirstTableLocality(request.query.s)
           ELSE FirstKnownLocality(df.rows, request.query.s)

\* ------------------------------------------------------------------------
\* Claims about year ranges with surrounding text (checked under SpecFilter)

\* the positions of s where four digits, a hyphen and four digits start
LiteralRangeAt(s) ==
    {i \in 1..(Len(s) - 8) :
        /\ \A k \in 0..3 : IsDigit(s[i + k]) /\ IsDigit(s[i + 5 + k])
        /\ s[i + 4] = "-"}

\* the start and end of the first 'YYYY-YYYY' of s
LiteralRange(s) ==
    LET i == SetMin(LiteralRangeAt(s))
    IN  [start |-> DigitsValue(SubSeq(s, i, i + 3)),
         end |-> DigitsValue(SubSeq(s, i + 5, i + 8))]

\* the year_range of the call does not start with 'last ' and holds a
\* 'YYYY-YYYY' somewhere
HoldsLiteralRange(year_range) ==
    /\ ~StartsWith(Lower(year_range), <<"l", "a", "s", "t", " ">>)
    /\ LiteralRangeAt(year_range) # {}

\* C18: for a year_range that does not start with 'last ' and holds a
\* literal YYYY-YYYY anywhere, with or without text around it, filter_data
\* keeps exactly the rows with start <= year <= end (that satisfy the other
\* filters).
C18_EmbeddedRangeApplied ==
    (/\ pc = "called"
     /\ last_call.op = "filter_data"
     /\ HoldsLiteralRange(last_call.filters.year_range))
    => /\ last_call.raised = ""
       /\ last_call.rows =
              SelectSeq(df.rows, LAMBDA r :
                  /\ Satisfies(r, [last_call.filters EXCEPT !.year_range = <<>>])
                  /\ LiteralRange(last_call.filters.year_range).start <= r["year"]
                  /\ r["year"] <= LiteralRange(last_call.filters.year_range).end)

\* what holds instead: the range is applied when the text is nothing but
\* the two numbers around one hyphen, and ignored when other text surrounds
\* them
EmbeddedRangeIgnored ==
    (/\ pc = "called"
     /\ last_call.op = "filter_data"
     /\ last_call.filters.year_range \in EmbeddedRanges)
    => /\ last_call.raised = ""
       /\ last_call.rows =
              SelectSeq(df.rows, LAMBDA r :
                  Satisfies(r, [last_call.filters EXCEPT !.year_range = <<>>]))

\* ------------------------------------------------------------------------
\* Claims about the summary's most active segment (checked under SpecFilter)

\* the sold columns of the property categories, in column order
CATEGORY_SOLD ==
    <<"flat_sold", "office_sold", "others_sold", "shop_sold", "commercial_sold",
      "other_sold", "residential_sold">>

\* the sum of the column's numbers over the rows, a NaN counting nothing
SoldSum(rows, c) ==
    LET RECURSIVE upto(_)
        upto(n) == IF n = 0 THEN 0
                   ELSE upto(n - 1) + (IF rows[n][c].nan THEN 0 ELSE rows[n][c].v)
    IN  upto(Len(rows))

\* the first of the columns cols whose sum over the rows is the largest
FirstLargest(rows, cols) ==
    LET best == {i \in DOMAIN cols :
                    \A j \in DOMAIN cols : SoldSum(rows, cols[j]) <= SoldSum(rows, cols[i])}
    IN  cols[SetMin(best)]

\* C19: for a non-empty filtered set the most active segment of the summary
\* is a property category (flat, office, others, shop, commercial, other,
\* residential; not the aggregate total_sold): the one with the largest
\* sold sum over the filtered rows, the first in column order on a tie.
C19_TopIsCategory ==
    (/\ pc = "called"
     /\ last_call.op = "process_query"
     /\ last_call.raised = ""
     /\ last_call.rows # <<>>)
    => last_call.result.summary.top_property = FirstLargest(last_call.rows, CATEGORY_SOLD)

\* what holds instead: total_sold competes with the categories, and comes
\* first in column order
TopAmongAllSold ==
    (/\ pc = "called"
     /\ last_call.op = "process_query"
     /\ last_call.raised = ""
     /\ last_call.rows # <<>>)
    => last_call.result.summary.top_property =
           FirstLargest(last_call.rows, <<"total_sold">> \o CATEGORY_SOLD)

\* ------------------------------------------------------------------------
\* Claims about coercion during the load (checked under SpecLoad)

\* the cell reads as a number: it is one, or its text without separators,
\* currency glyph and outer blanks is an integer
ReadsAsNumber(cell) ==
    \/ cell.k = "num"
    \/ cell.k = "str" /\ ParseInt(Strip(RemoveChars(cell.s, {",", "RUPEE"}))).ok

\* the number it reads as
NumberOf(cell) ==
    IF cell.k = "num" THEN cell.n
    ELSE ParseInt(Strip(RemoveChars(cell.s, {",", "RUPEE"}))).val

\* the document was read: a load from the file or the URL of a document that
\* has every required column
DocumentRead ==
    /\ pc \in {"ready", "failed"}
    /\ source \in {"file", "url"}
    /\ Len(env.doc.headers) = Len(DB_FIELDS)

\* the dataset row a document row stands for: numbers where the cells read
\* as numbers, missing values where they do not
ExpectedRow(docrow) ==
    [c \in Range(DB_FIELDS) |->
        LET cell == docrow[CHOOSE k \in DOMAIN DB_FIELDS : DB_FIELDS[k] = c]
        IN  IF c \in TEXT_COLUMNS THEN cell.s
            ELSE IF c = "year" THEN NumberOf(cell)
            ELSE IF ReadsAsNumber(cell) THEN Num(NumberOf(cell))
            ELSE NumNaN]

\* the document rows that name a locality and a city
KeyedRows ==
    SelectSeq(env.doc.rows, LAMBDA docrow : docrow[1].k # "nan" /\ docrow[3].k # "nan")

\* as many members of seq equal x
Count(seq, x) == Cardinality({i \in DOMAIN seq : seq[i] = x})

\* C20: a value of a numeric field other than year that does not read as a
\* number is loaded as a missing value (not as zero), and neither aborts the
\* load nor drops its row; a single row whose year is missing or does not
\* read as an integer aborts the whole load, and no dataset is produced.
C20_CoercionFailures ==
    DocumentRead
    => IF \E i \in DOMAIN env.doc.rows : ~ReadsAsNumber(env.doc.rows[i][2])
       THEN /\ pc = "failed"
            /\ df = NoDf
            /\ load_error # ""
       ELSE /\ pc = "ready"
            /\ ~df.none
            /\ Len(df.rows) = Len(KeyedRows)
            /\ \A i \in DOMAIN KeyedRows :
                   Count(df.rows, ExpectedRow(KeyedRows[i]))
                       = Count(KeyedRows, KeyedRows[i])

\* C20 witness: a document whose row holds 'abc' for flat_sold was loaded,
\* and the row is in the dataset with a missing flat_sold.
C20_Witness ==
    /\ DocumentRead
    /\ pc = "ready"
    /\ \E i \in DOMAIN env.doc.rows :
          /\ env.doc.rows[i][6] = RawStr(t_abc)
          /\ \E j \in DOMAIN df.rows :
                /\ df.rows[j] = ExpectedRow(env.doc.rows[i])
                /\ df.rows[j]["flat_sold"] = NumNaN

\* C20 witness of the other case: a two-row document with one year that
\* does not read as a number was read, and the load failed.
C20_WitnessYear ==
    /\ DocumentRead
    /\ pc = "failed"
    /\ Len(env.doc.rows) = 2
    /\ \E i, j \in DOMAIN env.doc.rows :
          /\ ReadsAsNumber(env.doc.rows[i][2])
          /\ ~ReadsAsNumber(env.doc.rows[j][2])

\* ------------------------------------------------------------------------
\* Claims about year_from and year_to (checked under Spec)

\* the filters without their year_from and year_to
WithoutYearFields(filters) == [filters EXCEPT !.year_from = NoYear, !.year_to = NoYear]

\* a request was answered after filter_data ran for it
FilterRan ==
    /\ pc = "done"
    /\ last_call.op \in {"process_query", "filter_data"}
    /\ last_call.raised = ""

\* C21: the rows filter_data selects do not depend on year_from and
\* year_to, supplied or inferred: for the filters of every request they are
\* the rows it selects for the same filters without the two fields, so any
\* two filter sets that differ in them alone select the same rows.
C21_YearFieldsIgnored ==
    FilterRan
    => last_call.rows =
           FilterData(df.rows, WithoutYearFields(last_call.out_filters), current_year).rows

\* C21 witness: filter_data ran with year_from and year_to set and no
\* year_range, and returned a row of a year outside them.
C21_Witness ==
    /\ FilterRan
    /\ ~last_call.out_filters.year_from.none
    /\ ~last_call.out_filters.year_to.none
    /\ last_call.out_filters.year_range = <<>>
    /\ \E i \in DOMAIN last_call.rows :
          \/ last_call.rows[i]["year"] < last_call.out_filters.year_from.v
          \/ last_call.rows[i]["year"] > last_call.out_filters.year_to.v

\* C21 witness for the export: the same with year_from and year_to taken
\* from the request's data
C21_WitnessExport ==
    /\ C21_Witness
    /\ request.path = "export/"

\* C22: for every analysis request that passes validation, whatever years
\* it supplies and whatever its query says, the resolved filters have
\* year_from <= year_to whenever both are set.
C22_ResolvedYearsOrdered ==
    (pc = "done" /\ request.path = "analyze/" /\ response.status = 200)
    => /\ (~response.result.filters.year_from.none /\ ~response.result.filters.year_to.none)
              => response.result.filters.year_from.v <= response.result.filters.year_to.v
       /\ (~last_call.out_filters.year_from.none /\ ~last_call.out_filters.year_to.none)
              => last_call.out_filters.year_from.v <= last_call.out_filters.year_to.v

\* C22 witness: a request that supplies a year_from later than the years of
\* its query and no year_to was answered with both years set.
C22_Witness ==
    /\ pc = "done"
    /\ request.path = "analyze/"
    /\ response.status = 200
    /\ Supplied(request.year_from)
    /\ ~Supplied(request.year_to)
    /\ QueryYearCount >= 2
    /\ request.year_from.v > SetMax(QueryYears)
    /\ ~response.result.filters.year_from.none
    /\ ~response.result.filters.year_to.none

\* C22 witness of the other case: both years supplied, in order, and kept
C22_WitnessSupplied ==
    /\ pc = "done"
    /\ request.path = "analyze/"
    /\ response.status = 200
    /\ Supplied(request.year_from)
    /\ Supplied(request.year_to)
    /\ response.result.filters.year_from = Year(request.year_from.v)
    /\ response.result.filters.year_to = Year(request.year_to.v)
    /\ request.year_from.v < request.year_to.v

====
